---- MODULE Spec2Model ----
(***************************************************************************)
(* Ingestion pipeline of rephole: the API producer, the repo-ingestion     *)
(* queue, the RepoUpdateProcessor worker, the content blob store and the   *)
(* vector store.                                                           *)
(*                                                                         *)
(* Strings built with ':' separators (chunk ids) are kept as the tuple of  *)
(* their parts, so that building an id and splitting it on ':' are both    *)
(* computed.  JSON values carry their JavaScript typeof as a tag.           *)
(***************************************************************************)
EXTENDS Integers, Sequences, FiniteSets, TLC

VARIABLES head, clones, repoStates, ulidClock, commitClock,
          blobs, vectors, queue, failed, jobSeq, faults, w, g, lastQuery,
          workers, chroma, pruned, progress, breaker

vars == << head, clones, repoStates, ulidClock, commitClock,
           blobs, vectors, queue, failed, jobSeq, faults, w, g, lastQuery,
           workers, chroma, pruned, progress, breaker >>

(***************************************************************************)
(* Bounds of the model.                                                    *)
(***************************************************************************)
\* commits that appear in the working clones after the initial one
MaxCommits == 1
\* jobs added to the queue in one behaviour
MaxJobs == 2
\* jobs waiting in the queue at one time
MaxQueue == 1
\* calls that throw in one behaviour
MaxFaults == 1
MaxQueries == 1
\* getCollection and createCollection calls after which no operation is
\* called again
MaxCalls == 4
MaxRequests == 7
MaxInFlight == 4
MaxTime == 180000

(***************************************************************************)
(* Program constants.                                                      *)
(***************************************************************************)
\* BullMQ job option attempts: 3
attempts == 3
\* VECTOR_STORE_BATCH_SIZE default
batchSize == 1000

(***************************************************************************)
(* JSON values.                                                            *)
(***************************************************************************)
Str(s) == [type |-> "string", val |-> s]
Num(n) == [type |-> "number", val |-> n]
Obj(s) == [type |-> "object", val |-> s]

\* { ...a, ...b }: the keys of b override those of a
Spread(a, b) == [k \in (DOMAIN a) \cup (DOMAIN b) |->
                    IF k \in DOMAIN b THEN b[k] ELSE a[k]]

Range(s) == {s[i] : i \in DOMAIN s}

(***************************************************************************)
(* Git content.  A commit is its sequence number together with its tree;   *)
(* a tree maps every path to the version of the file it holds, or Absent.  *)
(***************************************************************************)
Absent == "absent"

\* the paths of a repository, in the order of git ls-files
PathOrder == << "a.ts", "b.ts", "c.ts", "logo.PNG" >>
Paths == Range(PathOrder)

\* the versions of a file the environment can commit at a path
FileVersions(p) ==
    CASE p = "a.ts" -> {"v1", "v2"}
      [] p = "b.ts" -> {"v1"}
      [] p = "c.ts" -> {"w1"}
      [] p = "logo.PNG" -> {}

Trees == {t \in [Paths -> {Absent, "v1", "v2", "w1"}] :
             \A p \in Paths : t[p] \in FileVersions(p) \cup {Absent}}

EmptyTree == [p \in Paths |-> Absent]

\* lastProcessedCommit: null
NoCommit == [n |-> 0, tree |-> EmptyTree]

\* the text of a file version, as a sequence of character runs; "<NUL>" (U+0000) and
\* "<BEL>" (U+0007) are single control characters, "" is the zero-width
\* text of a block node the parser inserted; d1 holds two blocks of one name
\* on one line; n1 holds no block; p1 is an image
FileText(ver) ==
    CASE ver = "v1" -> << "function foo(){1}", "\n", "function bar(){1}" >>
      [] ver = "v2" -> << "function foo(){2}", "<NUL>", "\n", "\n",
                          "function bar(){1}" >>
      [] ver = "w1" -> << "<BEL>", "function baz(){}" >>
      [] ver = "d1" -> << "function foo(){1}", "function foo(){2}" >>
      [] ver = "s1" -> << "function foo(){1}", "", "\n",
                          "function bar(){1}" >>
      [] ver = "n1" -> << "// notes" >>
      [] ver = "p1" -> << "<NUL>", "PNG" >>

\* the version of a path that cannot be read as a file: the entry of a
\* submodule, which git ls-files lists and which is a directory on disk
Unreadable == "x1"

\* whether fs.readFileSync(fullPath, 'utf-8') returns rather than throws
CanRead(c, p) == c.tree[p] # Unreadable

\* fs.readFileSync(fullPath, 'utf-8') in the working clone at commit c
ReadFile(c, p) == FileText(c.tree[p])

(***************************************************************************)
(* Chunker (AstSplitterService).  The grammar query is the table IsBlock / *)
(* BlockName / BlockType over the character runs of a file.                *)
(***************************************************************************)
\* path.extname(fileName)
extname(fileName) ==
    CASE fileName = "a.ts" -> ".ts"
      [] fileName = "b.ts" -> ".ts"
      [] fileName = "c.ts" -> ".ts"
      [] fileName = "logo.PNG" -> ".PNG"

\* String.prototype.toLowerCase
toLowerCase(str) ==
    CASE str = ".PNG" -> ".png"
      [] str = "logo.PNG" -> "logo.png"
      [] OTHER -> str

\* extensions whose grammar was loaded at startup
LoadedExtensions == {".ts", ".tsx", ".js", ".py"}

BlockRuns == {"function foo(){1}", "function foo(){2}", "function bar(){1}",
              "function baz(){}", ""}

\* the runs captured as @block by the language query
IsBlock(run) == run \in BlockRuns

\* the text of the @name capture that is a child of the block
BlockName(run) ==
    CASE run \in {"function foo(){1}", "function foo(){2}"} -> "foo"
      [] run = "function bar(){1}" -> "bar"
      [] run = "function baz(){}" -> "baz"
      [] run = "" -> "anonymous"

BlockType(run) == "function_declaration"

\* node.startPosition.row + 1 of the run at index i
LineOf(content, i) ==
    1 + Cardinality({j \in 1..(i - 1) : content[j] = "\n"})

\* `${fileName}:${name}:${nodeType}:L${startLine}`, kept as its ':' parts
generateChunkId(fileName, name, nodeType, startLine) ==
    << fileName, name, nodeType, "L" \o ToString(startLine) >>

RECURSIVE SplitFrom(_, _, _)
SplitFrom(fileName, content, i) ==
    IF i > Len(content) THEN << >>
    ELSE IF IsBlock(content[i])
         THEN << [id |-> generateChunkId(fileName, BlockName(content[i]),
                                         BlockType(content[i]),
                                         LineOf(content, i)),
                  type |-> BlockType(content[i]),
                  content |-> content[i],
                  startLine |-> LineOf(content, i),
                  endLine |-> LineOf(content, i)] >>
              \o SplitFrom(fileName, content, i + 1)
         ELSE SplitFrom(fileName, content, i + 1)

\* AstSplitterService.split
split(fileName, content) ==
    IF toLowerCase(extname(fileName)) \notin LoadedExtensions THEN << >>
    ELSE SplitFrom(fileName, content, 1)

(***************************************************************************)
(* Git mirror (GitService).                                                *)
(***************************************************************************)
\* git ls-files
TrackedFiles(c) == LET present(p) == c.tree[p] # Absent IN SelectSeq(PathOrder, present)

\* a path deleted between the two trees whose content reappears unchanged at
\* a path added between them is reported as a rename (status R)
RenamedFrom(old, new, q) ==
    {p \in Paths : /\ old.tree[p] # Absent /\ new.tree[p] = Absent
                   /\ old.tree[q] = Absent /\ new.tree[q] # Absent
                   /\ old.tree[p] = new.tree[q]}

RenamedTo(old, new, p) == {q \in Paths : p \in RenamedFrom(old, new, q)}

\* a diff that reports every file present in both commits as modified
getChangedFilesTouchAll(lastCommit, headCommit) ==
    IF lastCommit.n = 0
    THEN [added |-> TrackedFiles(headCommit), modified |-> << >>,
          deleted |-> << >>, renamed |-> << >>]
    ELSE LET M(p) == lastCommit.tree[p] # Absent /\ headCommit.tree[p] # Absent
         IN [added |-> << >>, modified |-> SelectSeq(PathOrder, M),
             deleted |-> << >>, renamed |-> << >>]

getChangedFilesAlwaysAll(lastCommit, headCommit) ==
    [added |-> TrackedFiles(headCommit), modified |-> << >>,
     deleted |-> << >>, renamed |-> << >>]

\* GitService.getChangedFiles: name-status diff lastCommit..HEAD
getChangedFiles(lastCommit, headCommit) ==
    IF lastCommit.n = 0
    THEN [added |-> TrackedFiles(headCommit), modified |-> << >>,
          deleted |-> << >>, renamed |-> << >>]
    ELSE LET A(p) == /\ lastCommit.tree[p] = Absent
                     /\ headCommit.tree[p] # Absent
                     /\ RenamedFrom(lastCommit, headCommit, p) = {}
             M(p) == /\ lastCommit.tree[p] # Absent
                     /\ headCommit.tree[p] # Absent
                     /\ lastCommit.tree[p] # headCommit.tree[p]
             D(p) == /\ lastCommit.tree[p] # Absent
                     /\ headCommit.tree[p] = Absent
                     /\ RenamedTo(lastCommit, headCommit, p) = {}
             R(p) == RenamedFrom(lastCommit, headCommit, p) # {}
         IN [added |-> SelectSeq(PathOrder, A),
             modified |-> SelectSeq(PathOrder, M),
             deleted |-> SelectSeq(PathOrder, D),
             renamed |-> SelectSeq(PathOrder, R)]

(***************************************************************************)
(* Blob store (ContentStoreService).                                       *)
(***************************************************************************)
ControlChars == {"<NUL>", "<BEL>"}

\* strips U+0000 and the C0 control characters other than \n, \r, \t
sanitizeContent(content) ==
    LET keep(run) == run \notin ControlChars IN SelectSeq(content, keep)

\* repo.save({id, content, repoId, metadata}): upsert on the primary key id
saveParent(bl, id, content, repoId, metadata) ==
    [p \in (DOMAIN bl) \cup {id} |->
        IF p = id
        THEN [id |-> id, content |-> sanitizeContent(content),
              repoId |-> repoId, metadata |-> metadata]
        ELSE bl[p]]

(***************************************************************************)
(* Vector store (VectorStoreService).                                      *)
(***************************************************************************)
\* validateUniqueIds: TRUE when no id occurs twice in the batch
validateUniqueIds(records) ==
    \A i, j \in DOMAIN records : records[i].id = records[j].id => i = j

\* the ids named by the error of validateUniqueIds: those that occur again
\* after their first occurrence, each once, in order of first repetition
DuplicateIds(records) ==
    LET ids == [i \in DOMAIN records |-> records[i].id]
        again(i) == \E j \in 1..(i - 1) : ids[j] = ids[i]
        firstAgain(i) == /\ again(i)
                         /\ \A j \in 1..(i - 1) : ids[j] = ids[i] => ~again(j)
        at == SelectSeq([i \in DOMAIN ids |-> i], firstAgain)
    IN [n \in DOMAIN at |-> ids[at[n]]]

\* collection.upsert of one slice
UpsertSlice(vs, slice) ==
    LET ids == {slice[i].id : i \in DOMAIN slice}
        rec(id) == LET i == CHOOSE i \in DOMAIN slice :
                               /\ slice[i].id = id
                               /\ \A j \in DOMAIN slice :
                                     slice[j].id = id => j <= i
                   IN [id |-> id, document |-> slice[i].content,
                       embedding |-> slice[i].vector,
                       metadata |-> slice[i].metadata]
    IN [id \in (DOMAIN vs) \cup ids |-> IF id \in ids THEN rec(id) ELSE vs[id]]

RECURSIVE UpsertBatches(_, _, _)
UpsertBatches(vs, records, i) ==
    IF i > Len(records) THEN vs
    ELSE LET last == IF i + batchSize - 1 < Len(records)
                     THEN i + batchSize - 1 ELSE Len(records)
         IN UpsertBatches(UpsertSlice(vs, SubSeq(records, i, last)),
                          records, i + batchSize)

upsertValidatesAfterWriting(vs, records) ==
    [ok |-> validateUniqueIds(records),
     vectors |-> UpsertBatches(vs, records, 1),
     error |-> DuplicateIds(records)]

\* VectorStoreService.upsert: the ids are validated before the first batch
\* is written; ok is FALSE when it throws, error the ids its message names
upsert(vs, records) ==
    IF validateUniqueIds(records)
    THEN [ok |-> TRUE, vectors |-> UpsertBatches(vs, records, 1),
          error |-> << >>]
    ELSE [ok |-> FALSE, vectors |-> vs, error |-> DuplicateIds(records)]

\* VectorStoreService.deleteDocuments: collection.delete({ ids })
deleteDocuments(vs, ids) ==
    IF Len(ids) = 0 THEN vs
    ELSE [id \in (DOMAIN vs) \ Range(ids) |-> vs[id]]

\* a file path handed over as a record id: the string has the one part
PathAsId(p) == << p >>

(***************************************************************************)
(* Embedding client.                                                       *)
(***************************************************************************)
\* the embedding of one text
Embed(text) == << "embedding", text >>

\* text.replace(/^\s+|\s+$|\n/g, m => m === '\n' ? ' ' : ''): a match that
\* is exactly one newline becomes a space, every other match is removed
ProcessText(text) ==
    CASE text \in {"", " ", "  ", "\t"} -> ""
      [] text = "\n" -> " "
      [] text = " bar\n" -> "bar "
      [] OTHER -> text

embedDocumentsKeepEmpty(texts) ==
    [i \in DOMAIN texts |-> Embed(ProcessText(texts[i]))]

\* EmbeddingsService.embedDocuments: texts that are empty after the
\* sanitization are left out, the others embedded in order
embedDocuments(texts) ==
    LET kept(text) == ProcessText(text) # ""
        processedTexts == SelectSeq(texts, kept)
    IN [i \in DOMAIN processedTexts |-> Embed(ProcessText(processedTexts[i]))]

(***************************************************************************)
(* Requests and job payloads.                                              *)
(***************************************************************************)
\* a repository URL: scheme, host and path segments; dotGit tells whether the
\* last segment carries the ".git" suffix (kept apart from the segment)
Url(host, org, repo) ==
    [scheme |-> "https:", host |-> host, segments |-> << org, repo >>,
     dotGit |-> TRUE]

Urls == {Url("github.com", "acme", "demo"), Url("gitlab.com", "beta", "demo")}

\* names matching /^[a-zA-Z0-9._-]+$/
SafeNames == {"demo", "alpha"}

\* an absent optional string (undefined) is the empty string: both are falsy
Undefined == ""

\* an absent meta (undefined)
MetaNone == [defined |-> FALSE, entries |-> << >>]

\* a flat meta, one with a nested value, and one that also names reserved
\* metadata fields
MetaFlat ==
    [defined |-> TRUE,
     entries |-> ("team" :> Str("core")) @@ ("priority" :> Num(1))]
MetaNested ==
    [defined |-> TRUE,
     entries |-> ("team" :> Str("core")) @@ ("tags" :> Obj("array"))]
MetaHostile ==
    [defined |-> TRUE,
     entries |-> ("team" :> Str("core")) @@ ("filePath" :> Str("evil.ts"))
                 @@ ("repoId" :> Str("evil")) @@ ("chunkIndex" :> Num(7))
                 @@ ("tags" :> Obj("array"))]

\* the bodies of POST /ingestions/repository
Requests ==
    [repoUrl : Urls, repoId : {Undefined, "alpha"}, userId : {Undefined},
     meta : {MetaFlat, MetaNested}]

\* the payloads of the queue's wire format (RepoIngestionJobData)
Payloads ==
    [repoUrl : Urls, repoId : {"alpha"}, userId : {"alice"},
     meta : {MetaHostile}]

\* IsFlatObject on RepoIngestionDto.meta
IsFlatObject(meta) ==
    \/ ~meta.defined
    \/ \A k \in DOMAIN meta.entries :
          meta.entries[k].type \in {"string", "number", "boolean"}

\* RepoIngestionService.isValidGitUrl
isValidGitUrl(url) ==
    /\ url.scheme \in {"https:", "http:"}
    /\ \/ url.dotGit
       \/ url.host \in {"github.com", "gitlab.com", "bitbucket.org"}

\* IngestionService.extractRepoId: the last path segment without ".git";
\* "" stands for the BadRequestException
extractRepoId(url) ==
    LET name == url.segments[Len(url.segments)]
    IN IF name \in SafeNames THEN name ELSE ""

\* RepoIngestionService.ingestRepo: the payload handed to repoQueue.add; the
\* parameter list is destructured to repoUrl, ref, token, userId, repoId
QueuedPayload(params) ==
    [repoUrl |-> params.repoUrl, repoId |-> params.repoId,
     userId |-> params.userId, meta |-> MetaNone]

\* IngestionService.ingestRepo: the parameters passed to the producer
IngestParams(dto) ==
    [repoUrl |-> dto.repoUrl,
     userId |-> IF dto.userId # Undefined THEN dto.userId ELSE "system",
     repoId |-> IF dto.repoId # Undefined THEN dto.repoId
                ELSE extractRepoId(dto.repoUrl),
     meta |-> IF dto.meta.defined THEN dto.meta
              ELSE [defined |-> TRUE, entries |-> << >>]]

(***************************************************************************)
(* Worker (RepoUpdateProcessor): pure parts.                               *)
(***************************************************************************)
ReservedFields ==
    {"id", "category", "repositoryId", "repoId", "workspaceId", "userId",
     "timestamp", "filePath", "fileType", "chunkIndex", "chunkType",
     "parentId", "functionName", "startLine", "endLine"}

sanitizeMetaKeepReserved(meta) ==
    IF ~meta.defined THEN << >>
    ELSE [k \in {k \in DOMAIN meta.entries :
                    meta.entries[k].type \in {"string", "number", "boolean"}}
            |-> meta.entries[k]]

\* RepoUpdateProcessor.sanitizeMeta
sanitizeMeta(meta) ==
    IF ~meta.defined THEN << >>
    ELSE [k \in {k \in DOMAIN meta.entries :
                    /\ k \notin ReservedFields
                    /\ meta.entries[k].type \in {"string", "number", "boolean"}}
            |-> meta.entries[k]]

BinaryExtensions ==
    {".png", ".jpg", ".jpeg", ".gif", ".bmp", ".ico", ".svg", ".webp", ".tiff",
     ".mp4", ".avi", ".mov", ".wmv", ".flv", ".mkv",
     ".mp3", ".wav", ".ogg", ".flac", ".aac",
     ".zip", ".tar", ".gz", ".rar", ".7z", ".bz2",
     ".exe", ".dll", ".so", ".dylib", ".bin", ".class", ".pyc", ".o", ".a",
     ".pdf", ".doc", ".docx", ".xls", ".xlsx", ".ppt", ".pptx",
     ".ttf", ".otf", ".woff", ".woff2", ".eot",
     ".db", ".sqlite", ".sqlite3", ".wasm", ".lock"}

\* filePath.toLowerCase().substring(filePath.lastIndexOf('.')); every path
\* here has one dot after its first character, where the suffix from the
\* last dot is path.extname
LastDotSuffix(filePath) == toLowerCase(extname(filePath))

\* a test of the extension as it is written in the path
isBinaryFileCaseSensitive(filePath) == extname(filePath) \in BinaryExtensions

\* RepoUpdateProcessor.isBinaryFile
isBinaryFile(filePath) == LastDotSuffix(filePath) \in BinaryExtensions

\* chunk.content.trim().length > 0
NonBlank(text) == text \notin {"", " ", "\n", "\t"}

\* a filter that lets every chunk through
FilterChunksKeepAll(allChunks) == allChunks

\* allChunks.filter(chunk => chunk.content && chunk.content.trim().length > 0)
FilterChunks(allChunks) ==
    LET keep(chunk) == NonBlank(chunk.content) IN SelectSeq(allChunks, keep)

\* new Date().toISOString(): one reading of the wall clock
Now == "2025-01-01T00:00:00.000Z"

\* the vector record of the idx-th (0-based) chunk of a file, lines 189-236
BuildRecord(file, chunk, idx, vector, data, state, sanitizedMeta) ==
    LET idParts == chunk.id
        functionName == IF Len(idParts) >= 2 /\ idParts[2] # ""
                        THEN idParts[2] ELSE "anonymous"
        baseMetadata ==
            [id |-> Str(chunk.id),
             category |-> Str("repository"),
             workspaceId |-> Str("workspace"),
             userId |-> Str(IF data.userId # Undefined THEN data.userId
                            ELSE "system"),
             timestamp |-> Str(Now),
             filePath |-> Str(file),
             fileType |-> Str(extname(file)),
             chunkIndex |-> Num(idx),
             chunkType |-> Str(chunk.type),
             parentId |-> Str(file),
             repositoryId |-> Str(state.id),
             functionName |-> Str(functionName),
             startLine |-> Num(chunk.startLine),
             endLine |-> Num(chunk.endLine)]
        metadata ==
            Spread(Spread(baseMetadata, sanitizedMeta),
                   [id |-> baseMetadata.id,
                    category |-> baseMetadata.category,
                    repositoryId |-> baseMetadata.repositoryId,
                    repoId |-> Str(data.repoId)])
    IN [id |-> chunk.id, content |-> chunk.content, vector |-> vector,
        metadata |-> metadata]

\* vectors[idx] of a JavaScript array: undefined past its end
NoVector == << >>

VectorAt(embedded, i) == IF i \in DOMAIN embedded THEN embedded[i] ELSE NoVector

BuildRecordsIndexedFromOne(file, semanticChunks, data, state, sanitizedMeta) ==
    LET embedded == embedDocuments([i \in DOMAIN semanticChunks |->
                                       semanticChunks[i].content])
    IN [i \in DOMAIN semanticChunks |->
           BuildRecord(file, semanticChunks[i], i, VectorAt(embedded, i), data,
                       state, sanitizedMeta)]

\* semanticChunks.map((chunk, idx) => ...) with the vectors of embedDocuments
BuildRecords(file, semanticChunks, data, state, sanitizedMeta) ==
    LET embedded == embedDocuments([i \in DOMAIN semanticChunks |->
                                       semanticChunks[i].content])
    IN [i \in DOMAIN semanticChunks |->
           BuildRecord(file, semanticChunks[i], i - 1, VectorAt(embedded, i),
                       data,
                       state, sanitizedMeta)]

\* [...changes.added, ...changes.modified]
FilesToProcess(changes) == changes.added \o changes.modified

\* changes.added.length === 0 && changes.modified.length === 0
NoChanges(changes) == Len(changes.added) = 0 /\ Len(changes.modified) = 0

\* the ids handed to deleteDocuments: the deleted paths themselves
DeletedIds(changes) ==
    [i \in DOMAIN changes.deleted |-> PathAsId(changes.deleted[i])]

(***************************************************************************)
(* Repo state store (TypeORM repository of RepoStateEntity).               *)
(***************************************************************************)
\* repoStateRepo.findOneBy({ repoUrl }): the rows it can return
RowsByUrl(rs, repoUrl) == {r \in rs : r.repoUrl = repoUrl}

\* repoStateRepo.save(state): upsert on the primary key id
save(rs, state) == {r \in rs : r.id # state.id} \cup {state}

\* path.join(process.cwd(), LOCAL_STORAGE_PATH, repoId)
LocalPath(id) == << "storage", id >>

NewRepoStateEager(id, repoUrl) ==
    [id |-> id, repoUrl |-> repoUrl, localPath |-> LocalPath(id),
     lastProcessedCommit |-> head[repoUrl], fileSignatures |-> << >>]

\* the state created for a URL seen for the first time, lines 382-388
NewRepoState(id, repoUrl) ==
    [id |-> id, repoUrl |-> repoUrl, localPath |-> LocalPath(id),
     lastProcessedCommit |-> NoCommit, fileSignatures |-> << >>]

SkipsIngestionAsLogged(state) == state.lastProcessedCommit.n = 0

\* the branch for an existing state without lastProcessedCommit (lines
\* 393-411) logs "Skipping ingestion..." and falls through to return state
SkipsIngestion(state) == FALSE

\* the value of lastProcessedCommit stored for a URL, null when no row exists
LastOf(rs, repoUrl) ==
    IF RowsByUrl(rs, repoUrl) = {} THEN NoCommit
    ELSE (CHOOSE r \in RowsByUrl(rs, repoUrl) : TRUE).lastProcessedCommit

\* RepoUpdateProcessor.getRepoState: the state returned, the table and the
\* clones after it, and whether the job goes on to ingest
getRepoState(rs, cl, clk, repoUrl) ==
    IF RowsByUrl(rs, repoUrl) = {}
    THEN LET state == NewRepoState(clk + 1, repoUrl)
         IN [state |-> state, repoStates |-> save(rs, state),
             clones |-> cl \cup {state.localPath}, ulidClock |-> clk + 1,
             proceed |-> TRUE]
    ELSE LET state == CHOOSE r \in RowsByUrl(rs, repoUrl) : TRUE
         IN [state |-> state, repoStates |-> rs, clones |-> cl,
             ulidClock |-> clk,
             proceed |-> IF state.lastProcessedCommit.n = 0
                         THEN ~SkipsIngestion(state) ELSE TRUE]

(***************************************************************************)
(* One uninterrupted run of process(job), as a function of the stores.     *)
(***************************************************************************)
\* the body of the file loop for one file, lines 130-256; ok is FALSE when
\* the upsert throws
ProcessFile(st, file, data, state, sanitizedMeta, currentCommit) ==
    IF isBinaryFile(file) \/ ~CanRead(currentCommit, file) THEN st
    ELSE LET content == ReadFile(currentCommit, file)
             bl == saveParent(st.blobs, file, content, data.repoId,
                              sanitizedMeta)
             semanticChunks == FilterChunks(split(file, content))
             records == BuildRecords(file, semanticChunks, data, state,
                                     sanitizedMeta)
         IN IF Len(semanticChunks) = 0
            THEN [st EXCEPT !.blobs = bl]
            ELSE [st EXCEPT !.blobs = bl,
                            !.vectors = upsert(st.vectors, records).vectors,
                            !.ok = upsert(st.vectors, records).ok]

RECURSIVE ProcessFiles(_, _, _, _, _, _)
ProcessFiles(st, files, data, state, sanitizedMeta, currentCommit) ==
    IF Len(files) = 0 \/ ~st.ok THEN st
    ELSE ProcessFiles(ProcessFile(st, Head(files), data, state, sanitizedMeta,
                                  currentCommit),
                      Tail(files), data, state, sanitizedMeta, currentCommit)

\* process(job) run from the stores (bl, vs, rs) with the clone at headCommit
FullRun(bl, vs, rs, cl, clk, data, headCommit) ==
    LET sanitizedMeta == sanitizeMeta(data.meta)
        got == getRepoState(rs, cl, clk, data.repoUrl)
        changes == getChangedFiles(got.state.lastProcessedCommit, headCommit)
        start == [blobs |-> bl, vectors |-> vs, repoStates |-> got.repoStates,
                  ok |-> TRUE]
    IN IF ~got.proceed \/ NoChanges(changes) THEN start
       ELSE LET st == ProcessFiles(
                         [start EXCEPT !.vectors =
                             deleteDocuments(vs, DeletedIds(changes))],
                         FilesToProcess(changes), data, got.state,
                         sanitizedMeta, headCommit)
            IN IF ~st.ok THEN st
               ELSE [st EXCEPT !.repoStates =
                        save(st.repoStates,
                             [got.state EXCEPT
                                 !.lastProcessedCommit = headCommit])]

(***************************************************************************)
(* State.                                                                  *)
(*   head[u]      HEAD of repository u: of its remote before the clone, of *)
(*                the working clone after it (the worker never fetches;    *)
(*                what moves the clone's HEAD is outside the program)      *)
(*   clones       the local paths that hold a working clone                *)
(*   repoStates   the rows of the repo_states table                        *)
(*   blobs        content_blobs, by primary key                            *)
(*   vectors      the vector collection, by record id                      *)
(*   queue        the waiting jobs; failed: the jobs parked as failed      *)
(*   w            the worker: its position in process() and its locals     *)
(*   g            history of the running or last job: the writes of the    *)
(*                attempt in order, its result, and the stores as they     *)
(*                were when the job was first picked up                    *)
(*   lastQuery    the last query request and what it was answered          *)
(***************************************************************************)
NoJob == [id |-> 0]

\* the worker's state local before getRepoState has returned
NoState ==
    [id |-> 0, repoUrl |-> "", localPath |-> << >>,
     lastProcessedCommit |-> NoCommit, fileSignatures |-> << >>]

IdleWorker ==
    [pc |-> "idle", job |-> NoJob, state |-> NoState,
     sanitizedMeta |-> << >>, currentCommit |-> NoCommit,
     files |-> << >>, file |-> ""]

\* the workers that take jobs from the queue side by side
WorkerIds == {"worker-1", "worker-2"}

IdleWorkers == [i \in WorkerIds |-> IdleWorker]

\* the operations that callers run side by side on the one
\* VectorStoreService of a process
Operations == {"upsert", "similaritySearch", "deleteDocuments"}

\* the adapter before its first use and the server without the collection:
\* exists, the server holds the named collection; collection, the cached
\* handle is set; pc and cached, per operation, its position and whether
\* it found the handle cached; calls, the getCollection and
\* createCollection calls in order, each with the operation that made it
\* and whether the collection existed at the call
NoClient ==
    [exists |-> FALSE, collection |-> FALSE,
     pc |-> [o \in Operations |-> "idle"],
     cached |-> [o \in Operations |-> FALSE],
     calls |-> << >>]

\* job.progress of every job: 0 until job.updateProgress records a value
JobIds == 1..MaxJobs

NoProgress == [id \in JobIds |-> 0]

\* CircuitBreakerInterceptor: thresholds and wait time of the breaker it
\* creates for a handler
successThreshold == 3
failureThreshold == 3
openToHalfOpenWaitTime == 60000

\* new CircuitBreaker(options) at time 0 with no request in flight.  state,
\* failureCount, successCount and nextAttempt are the fields of the class;
\* now is Date.now() and inFlight the requests whose handler was invoked and
\* has not answered.  History: openedAt, when the breaker last left another
\* state for Open; closedFailures, the failures since the last success or
\* the last entry into Closed; halfOpenSuccesses, the successes since the
\* last entry into HalfOpen; event and answer, the last step and the answer
\* the interceptor gave to the request it ended
NewBreaker ==
    [state |-> "Closed", failureCount |-> 0, successCount |-> 0,
     nextAttempt |-> 0, now |-> 0, inFlight |-> 0, requests |-> 0,
     openedAt |-> 0, closedFailures |-> 0, halfOpenSuccesses |-> 0,
     event |-> "none", answer |-> [status |-> 0, message |-> ""]]

EmptyChanges ==
    [added |-> << >>, modified |-> << >>, deleted |-> << >>,
     renamed |-> << >>]

NoSnapshot == [valid |-> FALSE, jobId |-> 0]

NoHistory ==
    [job |-> NoJob, lastAtStart |-> NoCommit, headAtStart |-> NoCommit,
     changes |-> EmptyChanges, effects |-> << >>, result |-> "",
     error |-> << >>, first |-> NoSnapshot]

\* no query has been made
NoQuery == [op |-> "none", seq |-> 0]

InitTrees == {t \in Trees : t["a.ts"] = "v1" /\ t["c.ts"] = Absent}

Init ==
    /\ head \in [Urls -> {[n |-> 1, tree |-> t] : t \in InitTrees}]
    /\ clones = {}
    /\ repoStates = {}
    /\ ulidClock = 0
    /\ commitClock = 0
    /\ blobs = << >>
    /\ vectors = << >>
    /\ queue = << >>
    /\ failed = << >>
    /\ jobSeq = 0
    /\ faults = 0
    /\ w = IdleWorker
    /\ g = NoHistory
    /\ lastQuery = NoQuery
    /\ workers = IdleWorkers
    /\ chroma = NoClient
    /\ pruned = {}
    /\ progress = NoProgress
    /\ breaker = NewBreaker

(***************************************************************************)
(* Environment: a new commit becomes HEAD of a repository.                 *)
(***************************************************************************)
NewCommit(u, t) ==
    /\ w.pc = "idle"
    /\ commitClock < MaxCommits
    /\ commitClock' = commitClock + 1
    /\ head' = [head EXCEPT ![u] = [n |-> head[u].n + 1, tree |-> t]]
    /\ UNCHANGED << clones, repoStates, ulidClock, blobs, vectors, queue,
                    failed, jobSeq, faults, w, g >>
    /\ UNCHANGED << lastQuery, workers, chroma,
                    pruned, progress,
                    breaker >>

(***************************************************************************)
(* Producers.                                                              *)
(***************************************************************************)
NewJob(id, data, origin, reqMeta) ==
    [id |-> id, data |-> data, attemptsMade |-> 0, origin |-> origin,
     reqMeta |-> reqMeta]

\* POST /ingestions/repository -> IngestionService.ingestRepo ->
\* RepoIngestionService.ingestRepo; a body that fails validation is answered
\* 400 and changes nothing
IngestRepo(dto) ==
    /\ jobSeq < MaxJobs
    /\ Len(queue) < MaxQueue
    /\ IsFlatObject(dto.meta)
    /\ IngestParams(dto).repoId # ""
    /\ isValidGitUrl(dto.repoUrl)
    /\ jobSeq' = jobSeq + 1
    /\ queue' = Append(queue, NewJob(jobSeq + 1,
                                     QueuedPayload(IngestParams(dto)),
                                     "api", dto.meta))
    /\ UNCHANGED << head, clones, repoStates, ulidClock, commitClock, blobs,
                    vectors, failed, faults, w, g >>
    /\ UNCHANGED << lastQuery, workers, chroma,
                    pruned, progress,
                    breaker >>

\* a payload in the wire format added to the repo-ingestion queue directly
QueueAdd(data) ==
    /\ jobSeq < MaxJobs
    /\ Len(queue) < MaxQueue
    /\ jobSeq' = jobSeq + 1
    /\ queue' = Append(queue, NewJob(jobSeq + 1, data, "queue", data.meta))
    /\ UNCHANGED << head, clones, repoStates, ulidClock, commitClock, blobs,
                    vectors, failed, faults, w, g >>
    /\ UNCHANGED << lastQuery, workers, chroma,
                    pruned, progress,
                    breaker >>

(***************************************************************************)
(* Worker: process(job), one action per stretch between its writes.        *)
(***************************************************************************)
\* the history record of an attempt that starts on job
StartHistory(job) ==
    [job |-> job,
     lastAtStart |-> LastOf(repoStates, job.data.repoUrl),
     headAtStart |-> head[job.data.repoUrl],
     changes |-> EmptyChanges, effects |-> << >>, result |-> "",
     error |-> << >>,
     first |-> IF job.attemptsMade = 0
               THEN [valid |-> TRUE, jobId |-> job.id, blobs |-> blobs,
                     vectors |-> vectors, repoStates |-> repoStates,
                     clones |-> clones, ulidClock |-> ulidClock,
                     head |-> head[job.data.repoUrl]]
               ELSE IF g.first.valid /\ g.first.jobId = job.id THEN g.first
               ELSE NoSnapshot]

moveToFailedAlwaysRetry(job, hist) ==
    /\ w' = IdleWorker
    /\ g' = [hist EXCEPT !.result = "failed",
                         !.job = [job EXCEPT !.attemptsMade = @ + 1]]
    /\ queue' = Append(IF w.pc = "idle" THEN Tail(queue) ELSE queue,
                       [job EXCEPT !.attemptsMade = @ + 1])
    /\ failed' = failed

\* BullMQ on a failed attempt: it counts the attempt and adds the job to the
\* queue again while attempts are left, or parks it as failed
moveToFailed(job, hist) ==
    /\ w' = IdleWorker
    /\ g' = [hist EXCEPT !.result = "failed",
                         !.job = [job EXCEPT !.attemptsMade = @ + 1],
                         !.first = IF job.attemptsMade + 1 < attempts
                                   THEN @ ELSE NoSnapshot]
    /\ IF job.attemptsMade + 1 < attempts
       THEN /\ queue' = Append(IF w.pc = "idle" THEN Tail(queue) ELSE queue,
                               [job EXCEPT !.attemptsMade = @ + 1])
            /\ failed' = failed
       ELSE /\ queue' = IF w.pc = "idle" THEN Tail(queue) ELSE queue
            /\ failed' = Append(failed, [job EXCEPT !.attemptsMade = @ + 1])

\* a call of the attempt throws for a cause outside the program
Thrown(job, hist) ==
    /\ faults < MaxFaults
    /\ faults' = faults + 1
    /\ moveToFailed(job, hist)

\* process() returns
Returned(hist, result) ==
    /\ w' = IdleWorker
    /\ g' = [hist EXCEPT !.result = result,
                         !.first = IF hist.job.attemptsMade = 0
                                   THEN NoSnapshot ELSE @]

\* lines 75-90: the worker takes the next job, sanitizes its meta and
\* resolves the repo state (cloning and saving a new state when none exists)
StartJob ==
    /\ w.pc = "idle"
    /\ Len(queue) > 0
    /\ LET job == Head(queue)
           got == getRepoState(repoStates, clones, ulidClock,
                               job.data.repoUrl)
       IN /\ repoStates' = got.repoStates
          /\ clones' = got.clones
          /\ ulidClock' = got.ulidClock
          /\ queue' = Tail(queue)
          /\ IF got.proceed
             THEN /\ w' = [IdleWorker EXCEPT
                              !.pc = "resolved", !.job = job,
                              !.state = got.state,
                              !.sanitizedMeta = sanitizeMeta(job.data.meta)]
                  /\ g' = StartHistory(job)
             ELSE Returned(StartHistory(job), "skipped")
    /\ UNCHANGED << head, commitClock, blobs, vectors, failed, jobSeq, faults >>
    /\ UNCHANGED << lastQuery, workers, chroma,
                    pruned, progress,
                    breaker >>

\* cloneRepo throws for a URL seen for the first time: nothing is saved
CloneFails ==
    /\ w.pc = "idle"
    /\ Len(queue) > 0
    /\ RowsByUrl(repoStates, Head(queue).data.repoUrl) = {}
    /\ Thrown(Head(queue), StartHistory(Head(queue)))
    /\ UNCHANGED << head, clones, repoStates, ulidClock, commitClock, blobs,
                    vectors, jobSeq >>
    /\ UNCHANGED << lastQuery, workers, chroma,
                    pruned, progress,
                    breaker >>

\* GitService.validateCommit: git rev-parse of the commit in the clone of
\* repoUrl succeeds
validateCommit(repoUrl, commitHash) == << repoUrl, commitHash.n >> \notin pruned

\* lines 92-128: current commit, changed files, the early return, deletions;
\* getCurrentCommit throws when the clone directory does not exist, and
\* getChangedFiles throws when the stored commit does not resolve
Diff ==
    /\ w.pc = "resolved"
    /\ LET currentCommit == head[w.state.repoUrl]
           changes == getChangedFiles(w.state.lastProcessedCommit,
                                      currentCommit)
           hist == [g EXCEPT !.changes = changes]
       IN IF w.state.localPath \notin clones
          THEN /\ moveToFailed(w.job,
                               [g EXCEPT !.error =
                                   << "Repository path does not exist" >>])
               /\ vectors' = vectors
          ELSE IF /\ w.state.lastProcessedCommit.n # 0
                  /\ ~validateCommit(w.state.repoUrl,
                                     w.state.lastProcessedCommit)
          THEN /\ moveToFailed(w.job,
                               [g EXCEPT !.error =
                                   << "Invalid commit hash" >>])
               /\ vectors' = vectors
          ELSE IF NoChanges(changes)
          THEN /\ Returned(hist, "No changes detected")
               /\ vectors' = vectors
               /\ UNCHANGED << queue, failed >>
          ELSE /\ vectors' = deleteDocuments(vectors, DeletedIds(changes))
               /\ w' = [w EXCEPT !.pc = "files",
                                 !.currentCommit = currentCommit,
                                 !.files = FilesToProcess(changes)]
               /\ g' = [hist EXCEPT !.effects =
                           IF Len(changes.deleted) > 0
                           THEN Append(@, << "delete" >>) ELSE @]
               /\ UNCHANGED << queue, failed >>
    /\ UNCHANGED << head, clones, repoStates, ulidClock, commitClock, blobs,
                    jobSeq, faults >>
    /\ UNCHANGED << lastQuery, workers, chroma,
                    pruned, progress,
                    breaker >>

\* a loop body that stops at the first file it skips
BreakLoop(wk) == [wk EXCEPT !.files = << >>]

\* continue: the loop goes on with the file after this one
ContinueLoop(wk) == [wk EXCEPT !.files = Tail(@)]

\* lines 130-157: the next file is skipped (binary extension, or the read
\* throws), or read and saved as a parent
FileStep ==
    /\ w.pc = "files"
    /\ Len(w.files) > 0
    /\ LET file == Head(w.files)
       IN IF isBinaryFile(file) \/ ~CanRead(w.currentCommit, file)
          THEN /\ w' = ContinueLoop(w)
               /\ UNCHANGED << blobs, g >>
          ELSE /\ blobs' = saveParent(blobs, file,
                                      ReadFile(w.currentCommit, file),
                                      w.job.data.repoId, w.sanitizedMeta)
               /\ w' = [w EXCEPT !.pc = "saved", !.file = file]
               /\ g' = [g EXCEPT !.effects = Append(@, << "blob", file >>)]
    /\ UNCHANGED << head, clones, repoStates, ulidClock, commitClock, vectors,
                    queue, failed, jobSeq, faults >>
    /\ UNCHANGED << lastQuery, workers, chroma,
                    pruned, progress,
                    breaker >>

\* lines 159-255: the file is split, its chunks embedded and upserted
ChunkStep ==
    /\ w.pc = "saved"
    /\ LET file == w.file
           semanticChunks ==
               FilterChunks(split(file, ReadFile(w.currentCommit, file)))
           records == BuildRecords(file, semanticChunks, w.job.data, w.state,
                                   w.sanitizedMeta)
       IN IF Len(semanticChunks) = 0
          THEN /\ w' = [ContinueLoop(w) EXCEPT !.pc = "files", !.file = ""]
               /\ UNCHANGED << vectors, g, queue, failed, faults >>
          ELSE IF upsert(vectors, records).ok
               THEN /\ vectors' = upsert(vectors, records).vectors
                    /\ w' = [w EXCEPT !.pc = "files", !.files = Tail(@),
                                      !.file = ""]
                    /\ g' = [g EXCEPT !.effects =
                                Append(@, << "upsert", file >>)]
                    /\ UNCHANGED << queue, failed, faults >>
               ELSE /\ moveToFailed(w.job,
                                    [g EXCEPT !.error =
                                        upsert(vectors, records).error])
                    /\ faults' = faults
                    /\ vectors' = upsert(vectors, records).vectors
    /\ UNCHANGED << head, clones, repoStates, ulidClock, commitClock, blobs,
                    jobSeq >>
    /\ UNCHANGED << lastQuery, workers, chroma,
                    pruned, progress,
                    breaker >>

\* lines 275-283: the state is saved with the commit read at the start
CommitStep ==
    /\ w.pc = "files"
    /\ Len(w.files) = 0
    /\ repoStates' = save(repoStates,
                          [w.state EXCEPT
                              !.lastProcessedCommit = w.currentCommit])
    /\ Returned([g EXCEPT !.effects = Append(@, << "commit" >>)], "done")
    /\ UNCHANGED << head, clones, ulidClock, commitClock, blobs, vectors,
                    queue, failed, jobSeq, faults >>
    /\ UNCHANGED << lastQuery, workers, chroma,
                    pruned, progress,
                    breaker >>

\* a call of the running attempt throws (git, embedding client, vector
\* store, blob store or state store)
JobFail ==
    /\ w.pc # "idle"
    /\ Thrown(w.job, g)
    /\ UNCHANGED << head, clones, repoStates, ulidClock, commitClock, blobs,
                    vectors, jobSeq >>
    /\ UNCHANGED << lastQuery, workers, chroma,
                    pruned, progress,
                    breaker >>

Next ==
    \/ \E u \in Urls, t \in Trees : NewCommit(u, t)
    \/ \E dto \in Requests : IngestRepo(dto)
    \/ \E data \in Payloads : QueueAdd(data)
    \/ StartJob
    \/ CloneFails
    \/ Diff
    \/ FileStep
    \/ ChunkStep
    \/ CommitStep
    \/ JobFail

Spec == Init /\ [][Next]_vars

(***************************************************************************)
(* The worker on repositories whose file c.ts yields a zero-width block or *)
(* two chunks of one id; jobs come from the queue only and HEAD stays.     *)
(***************************************************************************)
OddTrees ==
    {t \in [Paths -> {Absent, "v1", "d1", "s1"}] :
        /\ t["a.ts"] \in {Absent, "v1"}
        /\ t["b.ts"] = Absent
        /\ t["c.ts"] \in {"d1", "s1"}
        /\ t["logo.PNG"] = Absent}

InitOddFiles ==
    /\ head \in [Urls -> {[n |-> 1, tree |-> t] : t \in OddTrees}]
    /\ clones = {}
    /\ repoStates = {}
    /\ ulidClock = 0
    /\ commitClock = 0
    /\ blobs = << >>
    /\ vectors = << >>
    /\ queue = << >>
    /\ failed = << >>
    /\ jobSeq = 0
    /\ faults = 0
    /\ w = IdleWorker
    /\ g = NoHistory
    /\ lastQuery = NoQuery
    /\ workers = IdleWorkers
    /\ chroma = NoClient
    /\ pruned = {}
    /\ progress = NoProgress
    /\ breaker = NewBreaker

NextOddFiles ==
    \/ \E data \in Payloads : QueueAdd(data)
    \/ StartJob
    \/ Diff
    \/ FileStep
    \/ ChunkStep
    \/ CommitStep
    \/ JobFail

SpecOddFiles == InitOddFiles /\ [][NextOddFiles]_vars

(***************************************************************************)
(* Query side: QueryController, QueryService, ParentChildRetrieverService  *)
(* and VectorStoreService.similaritySearch.                                *)
(***************************************************************************)
DEFAULT_K == 5
MAX_K == 100

\* the values of a request's k: undefined, null, or the number num/den
KUndefined == [kind |-> "undefined", num |-> 0, den |-> 1]
KNull == [kind |-> "null", num |-> 0, den |-> 1]
KNumber(num, den) == [kind |-> "number", num |-> num, den |-> den]

Ks == {KUndefined, KNull, KNumber(0, 1), KNumber(1, 1), KNumber(2, 1),
       KNumber(100, 1), KNumber(101, 1), KNumber(5, 2)}

\* Number.isInteger(k)
IsInteger(k) == k.kind = "number" /\ k.num % k.den = 0

normalizeKUnclamped(k) ==
    IF k.kind \in {"undefined", "null"} THEN DEFAULT_K
    ELSE IF ~IsInteger(k) \/ k.num < k.den THEN DEFAULT_K
    ELSE k.num \div k.den

\* QueryService.normalizeK
normalizeK(k) ==
    IF k.kind \in {"undefined", "null"} THEN DEFAULT_K
    ELSE IF ~IsInteger(k) \/ k.num < k.den THEN DEFAULT_K
    ELSE IF k.num \div k.den < MAX_K THEN k.num \div k.den ELSE MAX_K

\* the metas of a query request
MetaTeam == [defined |-> TRUE, entries |-> ("team" :> Str("core"))]
MetaOtherRepo == [defined |-> TRUE, entries |-> ("repoId" :> Str("demo"))]
QueryMetas == {MetaNone, MetaTeam, MetaOtherRepo, MetaNested}

Prompts == {"foo", " bar\n", "  "}

\* the repoId path parameters and the bodies of POST /queries/search/:repoId
RepoIdParams == {"alpha", "old"}
QueryRequests == [prompt : Prompts, k : Ks, meta : QueryMetas]

\* IsFlatFilterObject on QuerySearchRequest.meta
IsFlatFilterObject(meta) ==
    \/ ~meta.defined
    \/ \A key \in DOMAIN meta.entries :
          meta.entries[key].type \in {"string", "number", "boolean"}

\* @IsOptional() @IsInt() @Min(1) @Max(100) on QuerySearchRequest.k
IsValidK(k) ==
    \/ k.kind \in {"undefined", "null"}
    \/ /\ IsInteger(k)
       /\ k.num \div k.den >= 1
       /\ k.num \div k.den <= 100

\* the ValidationPipe on the body of a query request
IsValidQuery(params) == IsValidK(params.k) /\ IsFlatFilterObject(params.meta)

\* { repoId, ...(params.meta || {}) }
metaFilters(repoId, params) ==
    Spread([repoId |-> Str(repoId)],
           IF params.meta.defined THEN params.meta.entries ELSE << >>)

\* the where clause: every key of the filter equals the record's metadata
Matches(rec, filter) ==
    \A key \in DOMAIN filter :
        key \in DOMAIN rec.metadata /\ rec.metadata[key] = filter[key]

\* the place of a text in the embedding space
TextRank(text) ==
    CASE text = "function foo(){1}" -> 1
      [] text = "function foo(){2}" -> 2
      [] text = "function bar(){1}" -> 3
      [] text = "function baz(){}" -> 4
      [] text = "legacy one" -> 5
      [] text = "legacy two" -> 6
      [] OTHER -> 7

\* the distance of a stored embedding from the query vector
Distance(vector, embedding) ==
    IF vector[2] = "foo" THEN TextRank(embedding[2])
    ELSE 8 - TextRank(embedding[2])

\* the orders in which collection.query can rank the records of S: by
\* distance, records at one distance in any order
RECURSIVE Rankings(_, _, _)
Rankings(vs, vector, S) ==
    IF S = {} THEN {<< >>}
    ELSE LET nearest == {id \in S : \A other \in S :
                            Distance(vector, vs[id].embedding) <=
                                Distance(vector, vs[other].embedding)}
         IN UNION {{<< id >> \o rest :
                       rest \in Rankings(vs, vector, S \ {id})} :
                   id \in nearest}

\* one entry of the result of similaritySearch, lines 222-242
SearchHit(vs, vector, id) ==
    [id |-> id,
     score |-> 1 - Distance(vector, vs[id].embedding),
     content |-> IF vs[id].document # "" THEN vs[id].document
                 ELSE IF "text" \in DOMAIN vs[id].metadata
                      THEN vs[id].metadata.text.val ELSE "",
     metadata |-> Spread(vs[id].metadata, [id |-> Str(id)]),
     vector |-> << >>]

\* VectorStoreService.similaritySearch, the collection ranking its records
\* in the order ranking
similaritySearch(vs, vector, topK, ranking) ==
    LET n == IF Len(ranking) < topK THEN Len(ranking) ELSE topK
    IN [i \in 1..n |-> SearchHit(vs, vector, ranking[i])]

\* res.metadata.parentId, "" when the record has none
ParentIdOf(res) ==
    IF "parentId" \in DOMAIN res.metadata THEN res.metadata.parentId.val
    ELSE ""

\* res.metadata.repoId, undefined when the record has none
RepoIdOf(res) ==
    IF "repoId" \in DOMAIN res.metadata THEN res.metadata.repoId.val
    ELSE Undefined

\* the loop over the child results, lines 332-354: the parent ids in
\* insertion order and the orphan chunks
RECURSIVE ScanChildren(_, _, _, _, _)
ScanChildren(childResults, i, parentIds, orphanChunks, k) ==
    IF i > Len(childResults)
    THEN [parentIds |-> parentIds, orphanChunks |-> orphanChunks]
    ELSE LET res == childResults[i]
             pid == ParentIdOf(res)
             ids == IF pid = "" \/ pid \in Range(parentIds) THEN parentIds
                    ELSE Append(parentIds, pid)
             orphans == IF pid = "" /\ res.content # ""
                        THEN Append(orphanChunks,
                                    [id |-> res.id, content |-> res.content,
                                     repoId |-> RepoIdOf(res),
                                     metadata |-> res.metadata])
                        ELSE orphanChunks
         IN IF pid = "" /\ res.content = ""
            THEN ScanChildren(childResults, i + 1, ids, orphans, k)
            ELSE IF Len(ids) >= k
                 THEN [parentIds |-> ids, orphanChunks |-> orphans]
                 ELSE ScanChildren(childResults, i + 1, ids, orphans, k)

\* the sequences that hold each element of S once
RECURSIVE Orderings(_)
Orderings(S) ==
    IF S = {} THEN {<< >>}
    ELSE UNION {{<< x >> \o rest : rest \in Orderings(S \ {x})} : x \in S}

\* ContentStoreService.getParents: repo.findBy({ id: In(ids) }); the rows
\* come in an order the database chooses
getParents(bl, ids) ==
    {[i \in DOMAIN order |-> bl[order[i]]] :
        order \in Orderings(Range(ids) \cap DOMAIN bl)}

\* the answer of a query and what it called on the way
Answer(op, http, repoId, params, status) ==
    [op |-> op, seq |-> lastQuery.seq + 1, http |-> http, repoId |-> repoId,
     params |-> params, status |-> status, retriever |-> "none", k |-> 0, filter |-> << >>,
     searches |-> << >>, reads |-> << >>, parentIds |-> << >>,
     results |-> << >>]

\* a retriever that appends the orphan chunks to the parents it fetched
retrieveWithOrphans(ans, vs, queryVector, k, metadataFilters, ranking, parents) ==
    LET childResults == similaritySearch(vs, queryVector, k * 3, ranking)
        scan == ScanChildren(childResults, 1, << >>, << >>, k)
        called == [ans EXCEPT
                      !.retriever = "retrieve", !.k = k,
                      !.filter = metadataFilters,
                      !.searches = << [topK |-> k * 3,
                                       filter |-> metadataFilters,
                                       hits |-> childResults] >>,
                      !.parentIds = scan.parentIds]
    IN IF Len(scan.parentIds) > 0
       THEN [called EXCEPT
                !.reads = << scan.parentIds >>,
                !.results = [i \in DOMAIN parents |->
                                [id |-> parents[i].id,
                                 content |-> parents[i].content,
                                 repoId |-> parents[i].repoId,
                                 metadata |-> parents[i].metadata]]
                            \o scan.orphanChunks]
       ELSE [called EXCEPT !.results = scan.orphanChunks]

\* ParentChildRetrieverService.retrieve on the answer so far
retrieve(ans, vs, queryVector, k, metadataFilters, ranking, parents) ==
    LET childResults == similaritySearch(vs, queryVector, k * 3, ranking)
        scan == ScanChildren(childResults, 1, << >>, << >>, k)
        called == [ans EXCEPT
                      !.retriever = "retrieve", !.k = k,
                      !.filter = metadataFilters,
                      !.searches = << [topK |-> k * 3,
                                       filter |-> metadataFilters,
                                       hits |-> childResults] >>,
                      !.parentIds = scan.parentIds]
    IN IF Len(scan.parentIds) > 0
       THEN [called EXCEPT
                !.reads = << scan.parentIds >>,
                !.results = [i \in DOMAIN parents |->
                                [id |-> parents[i].id,
                                 content |-> parents[i].content,
                                 repoId |-> parents[i].repoId,
                                 metadata |-> parents[i].metadata]]]
       ELSE [called EXCEPT !.results = scan.orphanChunks]

retrieveChunksKeepEmpty(ans, vs, queryVector, k, metadataFilters, ranking) ==
    LET chunkResults == similaritySearch(vs, queryVector, k, ranking)
    IN [ans EXCEPT
           !.retriever = "retrieveChunks", !.k = k,
           !.filter = metadataFilters,
           !.searches = << [topK |-> k, filter |-> metadataFilters,
                            hits |-> chunkResults] >>,
           !.results = [i \in DOMAIN chunkResults |->
                           [id |-> chunkResults[i].id,
                            content |-> chunkResults[i].content,
                            repoId |-> RepoIdOf(chunkResults[i]),
                            metadata |-> chunkResults[i].metadata]]]

\* ParentChildRetrieverService.retrieveChunks on the answer so far
retrieveChunks(ans, vs, queryVector, k, metadataFilters, ranking) ==
    LET chunkResults == similaritySearch(vs, queryVector, k, ranking)
        hasContent(chunk) == chunk.content # ""
        kept == SelectSeq(chunkResults, hasContent)
    IN [ans EXCEPT
           !.retriever = "retrieveChunks", !.k = k,
           !.filter = metadataFilters,
           !.searches = << [topK |-> k, filter |-> metadataFilters,
                            hits |-> chunkResults] >>,
           !.results = [i \in DOMAIN kept |->
                           [id |-> kept[i].id, content |-> kept[i].content,
                            repoId |-> RepoIdOf(kept[i]),
                            metadata |-> kept[i].metadata]]]

\* the answers QueryService.search / searchChunks can give
Answers(op, http, repoId, params) ==
    IF http /\ ~IsValidQuery(params)
    THEN {Answer(op, http, repoId, params, 400)}
    ELSE LET k == normalizeK(params.k)
             filters == metaFilters(repoId, params)
             embeddings == embedDocuments(<< params.prompt >>)
             ok == Answer(op, http, repoId, params, 200)
         IN IF Len(embeddings) = 0
            THEN {Answer(op, http, repoId, params, 400)}
            ELSE LET queryVector == embeddings[1]
                     matching == {id \in DOMAIN vectors :
                                     Matches(vectors[id], filters)}
                 IN UNION {
                      IF op = "searchChunks"
                      THEN {retrieveChunks(ok, vectors, queryVector, k,
                                           filters, ranking)}
                      ELSE {retrieve(ok, vectors, queryVector, k, filters,
                                     ranking, parents) :
                              parents \in getParents(blobs,
                                  ScanChildren(
                                      similaritySearch(vectors, queryVector,
                                                       k * 3, ranking),
                                      1, << >>, << >>, k).parentIds)} :
                      ranking \in Rankings(vectors, queryVector, matching)}

\* POST /queries/search/:repoId (http) or QueryService.search called by
\* another provider
Search(http, repoId, params) ==
    /\ lastQuery.seq < MaxQueries
    /\ lastQuery' \in Answers("search", http, repoId, params)
    /\ UNCHANGED << head, clones, repoStates, ulidClock, commitClock, blobs,
                    vectors, queue, failed, jobSeq, faults, w, g, workers,
                    chroma,
                    pruned, progress,
                    breaker >>

\* POST /queries/search/:repoId/chunk or QueryService.searchChunks
SearchChunks(http, repoId, params) ==
    /\ lastQuery.seq < MaxQueries
    /\ lastQuery' \in Answers("searchChunks", http, repoId, params)
    /\ UNCHANGED << head, clones, repoStates, ulidClock, commitClock, blobs,
                    vectors, queue, failed, jobSeq, faults, w, g, workers,
                    chroma,
                    pruned, progress,
                    breaker >>

\* records of the collection that carry no parentId: written through
\* VectorStoreService.upsert by a client other than the repository worker
LegacyRecords ==
    << [id |-> << "legacy-1" >>, content |-> "legacy one",
        vector |-> Embed("legacy one"),
        metadata |-> [id |-> Str(<< "legacy-1" >>), repoId |-> Str("old")]],
       [id |-> << "legacy-2" >>, content |-> "legacy two",
        vector |-> Embed("legacy two"),
        metadata |-> [id |-> Str(<< "legacy-2" >>), repoId |-> Str("old")]],
       [id |-> << "legacy-3" >>, content |-> "",
        vector |-> Embed(""),
        metadata |-> [id |-> Str(<< "legacy-3" >>), repoId |-> Str("old")]],
       [id |-> << "legacy-4" >>, content |-> "legacy four",
        vector |-> Embed("legacy four"),
        metadata |-> [id |-> Str(<< "legacy-4" >>), repoId |-> Str("alpha")]] >>

\* the trees of the two repositories the query side searches
QueryTrees ==
    {t \in Trees : t["a.ts"] # Absent /\ t["b.ts"] # Absent /\ t["c.ts"] = Absent}

SecondTree == [EmptyTree EXCEPT !["a.ts"] = "v1"]

\* the jobs that fill the stores: the first repository under repoId alpha,
\* the second under repoId demo
FirstJobData ==
    [repoUrl |-> Url("github.com", "acme", "demo"), repoId |-> "alpha",
     userId |-> "alice", meta |-> MetaHostile]

SecondJobData ==
    [repoUrl |-> Url("gitlab.com", "beta", "demo"), repoId |-> "demo",
     userId |-> "alice", meta |-> MetaHostile]

\* the collection holds the legacy records, nothing is ingested yet
InitQuery ==
    /\ head \in {(FirstJobData.repoUrl :> [n |-> 1, tree |-> t]) @@
                 (SecondJobData.repoUrl :> [n |-> 1, tree |-> SecondTree]) :
                    t \in QueryTrees}
    /\ clones = {}
    /\ repoStates = {}
    /\ ulidClock = 0
    /\ commitClock = 0
    /\ blobs = << >>
    /\ vectors = upsert(<< >>, LegacyRecords).vectors
    /\ queue = << >>
    /\ failed = << >>
    /\ jobSeq = 0
    /\ faults = 0
    /\ w = IdleWorker
    /\ g = NoHistory
    /\ lastQuery = NoQuery
    /\ workers = IdleWorkers
    /\ chroma = NoClient
    /\ pruned = {}
    /\ progress = NoProgress
    /\ breaker = NewBreaker

\* the worker ingests while no answer is recorded; an answer stays next to
\* the stores it was computed from
NextQuery ==
    \/ lastQuery = NoQuery /\ \E data \in {FirstJobData, SecondJobData} :
                                 QueueAdd(data)
    \/ lastQuery = NoQuery /\ StartJob
    \/ lastQuery = NoQuery /\ Diff
    \/ lastQuery = NoQuery /\ FileStep
    \/ lastQuery = NoQuery /\ ChunkStep
    \/ lastQuery = NoQuery /\ CommitStep
    \/ \E http \in BOOLEAN, repoId \in RepoIdParams, params \in QueryRequests :
          Search(http, repoId, params)
    \/ \E http \in BOOLEAN, repoId \in RepoIdParams, params \in QueryRequests :
          SearchChunks(http, repoId, params)

SpecQuery == InitQuery /\ [][NextQuery]_vars

(***************************************************************************)
(* Job API: JobController, JobService and the retry operations of           *)
(* RepoIngestionService.                                                    *)
(***************************************************************************)
\* the POST routes of JobController in the order of their declaration, each
\* path as its segments after /jobs
JobPostRoutes ==
    << [path |-> << "retry", ":jobId" >>, handler |-> "retryRepositoryJob"],
       [path |-> << "retry", "all" >>, handler |-> "retryAllRepositoryJobs"] >>

\* a segment of a route path that binds a parameter
IsRouteParam(segment) == segment \in {":jobId"}

\* the route path matches the segments of the request path
RouteMatches(path, request) ==
    /\ Len(path) = Len(request)
    /\ \A i \in DOMAIN path : IsRouteParam(path[i]) \/ path[i] = request[i]

\* the router: the first declared route that matches handles the request
RouteFor(request) ==
    LET matching(route) == RouteMatches(route.path, request)
    IN Head(SelectSeq(JobPostRoutes, matching))

\* the last segments a client posts to /jobs/retry/
RetrySegments == {"all", "1", "2"}

\* the job a job id names; 0 when no job has the id
JobIdOf(segment) ==
    CASE segment = "1" -> 1
      [] segment = "2" -> 2
      [] OTHER -> 0

\* job.retry(): the failed jobs named by ids move to the end of the queue
RetryJobs(ids) ==
    LET named(job) == job.id \in ids
        kept(job) == job.id \notin ids
    IN /\ queue' = queue \o SelectSeq(failed, named)
       /\ failed' = SelectSeq(failed, kept)

\* the answer of the job API
JobAnswer(request, handler, status, retriedCount) ==
    [op |-> "jobs", seq |-> lastQuery.seq + 1, request |-> request,
     handler |-> handler, status |-> status, retriedCount |-> retriedCount]

\* a retry that does not look at the job's state
retryRepositoryJobAnyState(request, jobId) ==
    /\ RetryJobs({JobIdOf(jobId)})
    /\ lastQuery' = JobAnswer(request, "retryRepositoryJob", 200, 1)

\* RepoIngestionService.retryFailedJob through JobService.retryRepositoryJob
retryRepositoryJob(request, jobId) ==
    LET id == JobIdOf(jobId)
        isFailed == \E i \in DOMAIN failed : failed[i].id = id
    IN IF isFailed
       THEN /\ RetryJobs({id})
            /\ lastQuery' = JobAnswer(request, "retryRepositoryJob", 200, 1)
       ELSE /\ UNCHANGED << queue, failed >>
            /\ lastQuery' = JobAnswer(request, "retryRepositoryJob", 400, 0)

\* RepoIngestionService.retryAllFailedJobs through
\* JobService.retryAllFailedRepositoriesJobs
retryAllRepositoryJobs(request) ==
    /\ RetryJobs({failed[i].id : i \in DOMAIN failed})
    /\ lastQuery' = JobAnswer(request, "retryAllRepositoryJobs", 200,
                              Len(failed))

\* POST /jobs/retry/<segment>
PostJobsRetry(segment) ==
    /\ lastQuery.seq < MaxQueries
    /\ LET request == << "retry", segment >>
       IN IF RouteFor(request).handler = "retryRepositoryJob"
          THEN retryRepositoryJob(request, segment)
          ELSE retryAllRepositoryJobs(request)
    /\ UNCHANGED << head, clones, repoStates, ulidClock, commitClock, blobs,
                    vectors, jobSeq, faults, w, g, workers,
                    chroma,
                    pruned, progress,
                    breaker >>

NextJobs ==
    \/ \E data \in Payloads : QueueAdd(data)
    \/ StartJob
    \/ Diff
    \/ FileStep
    \/ ChunkStep
    \/ CommitStep
    \/ JobFail
    \/ \E segment \in RetrySegments : PostJobsRetry(segment)

\* the repositories with odd files, their jobs and the job API
SpecJobs == InitOddFiles /\ [][NextJobs]_vars

(***************************************************************************)
(* Job status: GET /jobs/job/:jobId -> JobService.getJobStatus ->          *)
(* RepoIngestionService.getJobStatus.                                       *)
(***************************************************************************)
\* the progress values recorded on a running job
ProgressMarks == {45, 100}

\* the last segments a client requests under /jobs/job/
StatusSegments == {"1", "2", "all"}

\* repoQueue.getJob(jobId) finds a job: every job added so far is kept
JobExists(id) == id \in 1..jobSeq

\* job.getState()
getState(id) ==
    IF w.pc # "idle" /\ w.job.id = id THEN "active"
    ELSE IF \E i \in DOMAIN queue : queue[i].id = id THEN "waiting"
    ELSE IF \E i \in DOMAIN failed : failed[i].id = id THEN "failed"
    ELSE "completed"

\* lines 119-123 of getJobStatus: the progress it reports for a job in
\* the given state whose recorded progress is jobProgress
ReportedProgress(state, jobProgress) ==
    IF jobProgress = 0
    THEN IF state = "completed" THEN 100 ELSE 0
    ELSE 0

\* Job.updateProgress of the queue library: a progress is recorded on the
\* job that is running
UpdateProgress(id, p) ==
    /\ getState(id) = "active"
    /\ JobExists(id)
    /\ p > progress[id]
    /\ progress' = [progress EXCEPT ![id] = p]
    /\ UNCHANGED << head, clones, repoStates, ulidClock, commitClock, blobs,
                    vectors, queue, failed, jobSeq, faults, w, g, lastQuery,
                    workers, chroma, pruned, breaker >>

\* GET /jobs/job/<segment>
GetJobStatus(segment) ==
    /\ lastQuery.seq < MaxQueries
    /\ LET id == JobIdOf(segment)
           request == << "job", segment >>
       IN lastQuery' =
              IF JobExists(id)
              THEN [op |-> "status", seq |-> lastQuery.seq + 1,
                    request |-> request, status |-> 200, id |-> id,
                    state |-> getState(id),
                    progress |-> ReportedProgress(getState(id),
                                                  progress[id])]
              ELSE [op |-> "status", seq |-> lastQuery.seq + 1,
                    request |-> request, status |-> 400, id |-> id,
                    state |-> "none", progress |-> 0]
    /\ UNCHANGED << head, clones, repoStates, ulidClock, commitClock, blobs,
                    vectors, queue, failed, jobSeq, faults, w, g, workers,
                    chroma, pruned, progress, breaker >>

NextStatus ==
    \/ \E data \in Payloads : QueueAdd(data)
    \/ StartJob
    \/ Diff
    \/ FileStep
    \/ ChunkStep
    \/ CommitStep
    \/ JobFail
    \/ \E id \in JobIds, p \in ProgressMarks : UpdateProgress(id, p)
    \/ \E segment \in StatusSegments : GetJobStatus(segment)

\* the repositories with odd files, their jobs and the status requests
SpecStatus == InitOddFiles /\ [][NextStatus]_vars

(***************************************************************************)
(* Two workers on one queue: process(job) of each worker, one action per   *)
(* stretch between the awaits that touch the state store, the clone and    *)
(* the stores.                                                              *)
(***************************************************************************)
\* BullMQ on a failed attempt of worker i
WorkerFails(i) ==
    LET job == [workers[i].job EXCEPT !.attemptsMade = @ + 1]
    IN /\ workers' = [workers EXCEPT ![i] = IdleWorker]
       /\ IF job.attemptsMade < attempts
          THEN queue' = Append(queue, job) /\ failed' = failed
          ELSE queue' = queue /\ failed' = Append(failed, job)

\* lines 75-90 and 363-374: worker i takes the next job and looks the state
\* up; for a URL without a state it draws a ulid and the local path
TakeJob(i) ==
    /\ workers[i].pc = "idle"
    /\ Len(queue) > 0
    /\ LET job == Head(queue)
           rows == RowsByUrl(repoStates, job.data.repoUrl)
           taken == [IdleWorker EXCEPT
                        !.job = job,
                        !.sanitizedMeta = sanitizeMeta(job.data.meta)]
       IN IF rows = {}
          THEN /\ ulidClock' = ulidClock + 1
               /\ workers' = [workers EXCEPT ![i] =
                     [taken EXCEPT
                         !.pc = "new",
                         !.state = NewRepoState(ulidClock + 1,
                                                job.data.repoUrl)]]
          ELSE /\ ulidClock' = ulidClock
               /\ \E state \in rows :
                     workers' = [workers EXCEPT ![i] =
                         [taken EXCEPT !.pc = "resolved", !.state = state]]
    /\ queue' = Tail(queue)
    /\ UNCHANGED << head, clones, repoStates, commitClock, blobs, vectors,
                    failed, jobSeq, faults, w, g, lastQuery,
                    chroma,
                    pruned, progress,
                    breaker >>

\* line 379: gitService.cloneRepo(repoUrl, localPath); it throws when the
\* directory already holds a clone
CloneRepo(i) ==
    /\ workers[i].pc = "new"
    /\ IF workers[i].state.localPath \in clones
       THEN /\ WorkerFails(i)
            /\ clones' = clones
       ELSE /\ clones' = clones \cup {workers[i].state.localPath}
            /\ workers' = [workers EXCEPT ![i].pc = "cloned"]
            /\ UNCHANGED << queue, failed >>
    /\ UNCHANGED << head, repoStates, ulidClock, commitClock, blobs, vectors,
                    jobSeq, faults, w, g, lastQuery,
                    chroma,
                    pruned, progress,
                    breaker >>

\* line 390: repoStateRepo.save(state) of the new state
SaveNewState(i) ==
    /\ workers[i].pc = "cloned"
    /\ repoStates' = save(repoStates, workers[i].state)
    /\ workers' = [workers EXCEPT ![i].pc = "resolved"]
    /\ UNCHANGED << head, clones, ulidClock, commitClock, blobs, vectors,
                    queue, failed, jobSeq, faults, w, g, lastQuery,
                    chroma,
                    pruned, progress,
                    breaker >>

\* lines 92-128: current commit, changed files, the early return, deletions
WorkerDiff(i) ==
    /\ workers[i].pc = "resolved"
    /\ LET state == workers[i].state
           currentCommit == head[state.repoUrl]
           changes == getChangedFiles(state.lastProcessedCommit,
                                      currentCommit)
       IN IF NoChanges(changes)
          THEN /\ workers' = [workers EXCEPT ![i] = IdleWorker]
               /\ vectors' = vectors
          ELSE /\ vectors' = deleteDocuments(vectors, DeletedIds(changes))
               /\ workers' = [workers EXCEPT
                                 ![i].pc = "files",
                                 ![i].currentCommit = currentCommit,
                                 ![i].files = FilesToProcess(changes)]
    /\ UNCHANGED << head, clones, repoStates, ulidClock, commitClock, blobs,
                    queue, failed, jobSeq, faults, w, g, lastQuery,
                    chroma,
                    pruned, progress,
                    breaker >>

\* lines 130-256: the file loop of worker i
WorkerFiles(i) ==
    /\ workers[i].pc = "files"
    /\ LET st == ProcessFiles(
                    [blobs |-> blobs, vectors |-> vectors,
                     repoStates |-> repoStates, ok |-> TRUE],
                    workers[i].files, workers[i].job.data, workers[i].state,
                    workers[i].sanitizedMeta, workers[i].currentCommit)
       IN /\ blobs' = st.blobs
          /\ vectors' = st.vectors
          /\ IF st.ok
             THEN /\ workers' = [workers EXCEPT ![i].pc = "processed",
                                                ![i].files = << >>]
                  /\ UNCHANGED << queue, failed >>
             ELSE WorkerFails(i)
    /\ UNCHANGED << head, clones, repoStates, ulidClock, commitClock, jobSeq,
                    faults, w, g, lastQuery,
                    chroma,
                    pruned, progress,
                    breaker >>

\* lines 275-283: worker i saves its state with the commit it read
WorkerCommit(i) ==
    /\ workers[i].pc = "processed"
    /\ repoStates' = save(repoStates,
                          [workers[i].state EXCEPT
                              !.lastProcessedCommit =
                                  workers[i].currentCommit])
    /\ workers' = [workers EXCEPT ![i] = IdleWorker]
    /\ UNCHANGED << head, clones, ulidClock, commitClock, blobs, vectors,
                    queue, failed, jobSeq, faults, w, g, lastQuery,
                    chroma,
                    pruned, progress,
                    breaker >>

NextWorkers ==
    \/ \E u \in Urls, t \in Trees : NewCommit(u, t)
    \/ \E data \in Payloads : QueueAdd(data)
    \/ \E i \in WorkerIds : TakeJob(i)
    \/ \E i \in WorkerIds : CloneRepo(i)
    \/ \E i \in WorkerIds : SaveNewState(i)
    \/ \E i \in WorkerIds : WorkerDiff(i)
    \/ \E i \in WorkerIds : WorkerFiles(i)
    \/ \E i \in WorkerIds : WorkerCommit(i)

\* the queue served by two workers
SpecWorkers == Init /\ [][NextWorkers]_vars

(***************************************************************************)
(* The worker on a repository that holds an image, a submodule entry and a *)
(* source file without blocks, whose clone directory can disappear and     *)
(* whose history can be rewritten between two jobs.                        *)
(***************************************************************************)
FileTrees ==
    {t \in [Paths -> {Absent, "v1", "w1", "n1", "p1", Unreadable}] :
        /\ t["a.ts"] \in {"v1", Unreadable}
        /\ t["b.ts"] \in {Absent, "n1"}
        /\ t["c.ts"] \in {Absent, "w1"}
        /\ t["logo.PNG"] \in {Absent, "p1"}}

\* the clone directory at localPath is removed from the worker's disk
RemoveClone(localPath) ==
    /\ w.pc = "idle"
    /\ localPath \in clones
    /\ clones' = clones \ {localPath}
    /\ UNCHANGED << head, repoStates, ulidClock, commitClock, blobs, vectors,
                    queue, failed, jobSeq, faults, w, g, lastQuery, workers,
                    chroma, pruned, progress,
                    breaker >>

\* the branch checked out in the clone of u is reset to a rewritten history
\* and the clone is pruned: HEAD is a new commit and the commits before it
\* no longer resolve
RewriteHistory(u, t) ==
    /\ w.pc = "idle"
    /\ commitClock < MaxCommits
    /\ \E r \in RowsByUrl(repoStates, u) : r.localPath \in clones
    /\ commitClock' = commitClock + 1
    /\ head' = [head EXCEPT ![u] = [n |-> head[u].n + 1, tree |-> t]]
    /\ pruned' = pruned \cup {<< u, n >> : n \in 1..head[u].n}
    /\ UNCHANGED << clones, repoStates, ulidClock, blobs, vectors, queue,
                    failed, jobSeq, faults, w, g, lastQuery, workers,
                    chroma, progress, breaker >>

InitFiles ==
    /\ head \in {(FirstJobData.repoUrl :> [n |-> 1, tree |-> t]) @@
                 (SecondJobData.repoUrl :> [n |-> 1, tree |-> SecondTree]) :
                    t \in FileTrees}
    /\ clones = {}
    /\ repoStates = {}
    /\ ulidClock = 0
    /\ commitClock = 0
    /\ blobs = << >>
    /\ vectors = << >>
    /\ queue = << >>
    /\ failed = << >>
    /\ jobSeq = 0
    /\ faults = 0
    /\ w = IdleWorker
    /\ g = NoHistory
    /\ lastQuery = NoQuery
    /\ workers = IdleWorkers
    /\ chroma = NoClient
    /\ pruned = {}
    /\ progress = NoProgress
    /\ breaker = NewBreaker

NextFiles ==
    \/ \E t \in FileTrees : NewCommit(FirstJobData.repoUrl, t)
    \/ \E t \in FileTrees : RewriteHistory(FirstJobData.repoUrl, t)
    \/ \E localPath \in clones : RemoveClone(localPath)
    \/ QueueAdd(FirstJobData)
    \/ StartJob
    \/ Diff
    \/ FileStep
    \/ ChunkStep
    \/ CommitStep
    \/ JobFail

SpecFiles == InitFiles /\ [][NextFiles]_vars

(***************************************************************************)
(* Circuit breaker: CircuitBreaker and CircuitBreakerInterceptor on one    *)
(* handler.  A request is one Intercept step and, when its handler was     *)
(* invoked, one Succeed or Fail step later; the clock moves in between.    *)
(***************************************************************************)
\* the fallback of the options: HttpException(503)
Fallback ==
    [status |-> 503, message |-> "Service unavailable. Please try again later."]

\* the error a failing handler throws
HandlerError == [status |-> 502, message |-> "Bad Gateway"]

\* the value a handler returns
HandlerValue == [status |-> 200, message |-> "OK"]

\* catchError(() => throwError(() => new HttpException(500))) of the
\* interceptor: whatever error comes out of exec is replaced
catchError(error) == [status |-> 500, message |-> "Internal server error"]

\* the steps the clock makes between two events, in milliseconds
TickSteps == {30000, 60000}

\* a success handler that keeps the failure count
handleSuccessKeepFailures(b) ==
    IF b.state = "HalfOpen"
    THEN IF b.successCount + 1 >= successThreshold
         THEN [b EXCEPT !.successCount = 0, !.state = "Closed"]
         ELSE [b EXCEPT !.successCount = @ + 1]
    ELSE b

\* CircuitBreaker.handleSuccess on the fields b
handleSuccess(b) ==
    LET reset == [b EXCEPT !.failureCount = 0]
    IN IF reset.state = "HalfOpen"
       THEN IF reset.successCount + 1 >= successThreshold
            THEN [reset EXCEPT !.successCount = 0, !.state = "Closed"]
            ELSE [reset EXCEPT !.successCount = @ + 1]
       ELSE reset

\* CircuitBreaker.handleError on the fields b
handleError(b) ==
    LET counted == [b EXCEPT !.failureCount = @ + 1]
    IN IF counted.failureCount >= failureThreshold \/ counted.state = "HalfOpen"
       THEN [counted EXCEPT
                !.state = "Open",
                !.nextAttempt = counted.now + openToHalfOpenWaitTime]
       ELSE counted

\* CircuitBreaker.exec up to its return: the fallback is returned, or the
\* handler is invoked (in HalfOpen when the wait of an open breaker is over)
exec(b) ==
    IF b.state = "Open" /\ b.nextAttempt > b.now
    THEN [b EXCEPT !.event = "fallback"]
    ELSE [b EXCEPT !.state = IF @ = "Open" THEN "HalfOpen" ELSE @,
                   !.event = "invoke", !.inFlight = @ + 1]

\* the history fields after a step from old to new
Observe(old, new) ==
    [new EXCEPT
        !.openedAt = IF old.state # "Open" /\ new.state = "Open"
                     THEN new.now ELSE @,
        !.closedFailures =
            IF new.event = "success" THEN 0
            ELSE IF old.state # "Closed" /\ new.state = "Closed" THEN 0
            ELSE IF new.event = "failure" THEN @ + 1
            ELSE @,
        !.halfOpenSuccesses =
            IF old.state # "HalfOpen" /\ new.state = "HalfOpen" THEN 0
            ELSE IF new.event = "success" /\ old.state = "HalfOpen" THEN @ + 1
            ELSE @]

BreakerFrame ==
    UNCHANGED << head, clones, repoStates, ulidClock, commitClock, blobs,
                 vectors, queue, failed, jobSeq, faults, w, g, lastQuery,
                 workers, chroma, pruned, progress >>

\* Date.now() moves on
Tick(d) ==
    /\ breaker.now + d <= MaxTime
    /\ breaker' = [breaker EXCEPT !.now = @ + d, !.event = "tick"]
    /\ BreakerFrame

\* CircuitBreakerInterceptor.intercept: a request for the handler arrives
Intercept ==
    /\ breaker.requests < MaxRequests
    /\ breaker.inFlight < MaxInFlight
    /\ LET b == exec([breaker EXCEPT !.requests = @ + 1])
       IN breaker' = Observe(breaker,
                         IF b.event = "fallback"
                         THEN [b EXCEPT !.answer = catchError(Fallback)]
                         ELSE b)
    /\ BreakerFrame

\* the handler of a request in flight returns: tap next, then the value
\* goes to the client
Succeed ==
    /\ breaker.inFlight > 0
    /\ breaker' = Observe(breaker,
                      [handleSuccess(breaker) EXCEPT
                          !.inFlight = @ - 1, !.event = "success",
                          !.answer = HandlerValue])
    /\ BreakerFrame

\* the handler of a request in flight throws: tap error, then catchError
Fail ==
    /\ breaker.inFlight > 0
    /\ breaker' = Observe(breaker,
                      [handleError(breaker) EXCEPT
                          !.inFlight = @ - 1, !.event = "failure",
                          !.answer = catchError(HandlerError)])
    /\ BreakerFrame

NextBreaker ==
    \/ \E d \in TickSteps : Tick(d)
    \/ Intercept
    \/ Succeed
    \/ Fail

SpecBreaker == Init /\ [][NextBreaker]_vars

(***************************************************************************)
(* Collection bootstrap: VectorStoreService.ensureCollection under the     *)
(* operations of one adapter instance, one action per await.               *)
(***************************************************************************)
\* an operation is called and enters ensureCollection: the cached handle is
\* returned, or getCollection is awaited
BeginOperation(o) ==
    /\ chroma.pc[o] = "idle"
    /\ chroma' = [chroma EXCEPT
                     !.pc[o] = IF chroma.collection THEN "call" ELSE "get",
                     !.cached[o] = chroma.collection]
    /\ UNCHANGED << head, clones, repoStates, ulidClock, commitClock, blobs,
                    vectors, queue, failed, jobSeq, faults, w, g, lastQuery,
                    workers, pruned, progress,
                    breaker >>

\* lines 369-375: client.getCollection answers; it throws when the server
\* has no collection of the name
GetCollection(o) ==
    /\ chroma.pc[o] = "get"
    /\ chroma' = [chroma EXCEPT
                     !.pc[o] = IF chroma.exists THEN "call" ELSE "create",
                     !.collection = IF chroma.exists THEN TRUE ELSE @,
                     !.calls = Append(@, [call |-> "getCollection",
                                          by |-> o,
                                          existed |-> chroma.exists])]
    /\ UNCHANGED << head, clones, repoStates, ulidClock, commitClock, blobs,
                    vectors, queue, failed, jobSeq, faults, w, g, lastQuery,
                    workers, pruned, progress,
                    breaker >>

\* lines 376-386: client.createCollection answers; the server refuses a
\* name it already holds and the operation fails with that error
CreateCollection(o) ==
    /\ chroma.pc[o] = "create"
    /\ chroma' = [chroma EXCEPT
                     !.pc[o] = IF chroma.exists THEN "failed" ELSE "call",
                     !.exists = TRUE,
                     !.collection = IF chroma.exists THEN @ ELSE TRUE,
                     !.calls = Append(@, [call |-> "createCollection",
                                          by |-> o,
                                          existed |-> chroma.exists])]
    /\ UNCHANGED << head, clones, repoStates, ulidClock, commitClock, blobs,
                    vectors, queue, failed, jobSeq, faults, w, g, lastQuery,
                    workers, pruned, progress,
                    breaker >>

\* the operation's own call on the collection
CallCollection(o) ==
    /\ chroma.pc[o] = "call"
    /\ chroma' = [chroma EXCEPT !.pc[o] = "done"]
    /\ vectors' =
          CASE o = "upsert" -> upsert(vectors, LegacyRecords).vectors
            [] o = "deleteDocuments" ->
                   deleteDocuments(vectors, << << "legacy-1" >> >>)
            [] OTHER -> vectors
    /\ UNCHANGED << head, clones, repoStates, ulidClock, commitClock, blobs,
                    queue, failed, jobSeq, faults, w, g, lastQuery, workers,
                    pruned, progress,
                    breaker >>

\* the operation has returned or thrown and is called again
ReturnOperation(o) ==
    /\ chroma.pc[o] \in {"done", "failed"}
    /\ Len(chroma.calls) < MaxCalls
    /\ chroma' = [chroma EXCEPT !.pc[o] = "idle"]
    /\ UNCHANGED << head, clones, repoStates, ulidClock, commitClock, blobs,
                    vectors, queue, failed, jobSeq, faults, w, g, lastQuery,
                    workers, pruned, progress,
                    breaker >>

NextCollection ==
    \/ \E o \in Operations : BeginOperation(o)
    \/ \E o \in Operations : GetCollection(o)
    \/ \E o \in Operations : CreateCollection(o)
    \/ \E o \in Operations : CallCollection(o)
    \/ \E o \in Operations : ReturnOperation(o)

\* one adapter instance in a process that starts with an empty server
SpecCollection == Init /\ [][NextCollection]_vars

(***************************************************************************)
(* Properties.  They read the stores together with the history g of the    *)
(* running or last attempt.                                                *)
(***************************************************************************)
\* the last attempt returned from process() without throwing
JobCompleted ==
    /\ w.pc = "idle"
    /\ g.job.id # 0
    /\ g.result \in {"done", "No changes detected", "skipped"}

\* the ids of the vector records with metadata.parentId = P, metadata.repoId = R
VectorsOf(P, R) ==
    {id \in DOMAIN vectors : /\ vectors[id].metadata.parentId = Str(P)
                             /\ vectors[id].metadata.repoId = Str(R)}

\* the files whose chunks the attempt of g has upserted
UpsertedFiles ==
    {g.effects[i][2] : i \in {j \in DOMAIN g.effects :
                                 g.effects[j][1] = "upsert"}}

\* the chunks of file f at the commit the attempt of g works on
ChunksAtHead(f) == FilterChunks(split(f, ReadFile(g.headAtStart, f)))

\* C1: once every job added so far has completed without an error, every
\* vector record with metadata.parentId = P and metadata.repoId = R has a
\* content blob with id P whose repoId is R, also when two repositories hold
\* a file at the same relative path.
C1_EveryVectorHasItsBlob ==
    (JobCompleted /\ faults = 0 /\ queue = << >>) =>
        \A id \in DOMAIN vectors :
            LET P == vectors[id].metadata.parentId.val
                R == vectors[id].metadata.repoId.val
            IN /\ P \in DOMAIN blobs
               /\ blobs[P].repoId = R

\* C2: after a job on a repository returns without an error while the
\* working clone's HEAD is C, the stored lastProcessedCommit of the
\* repository is C, also when the diff holds no added and no modified file.
C2_LastProcessedCommitIsHead ==
    JobCompleted =>
        LastOf(repoStates, g.job.data.repoUrl) = g.headAtStart

\* C3: when the diff of a completed job reports file F as deleted, no vector
\* record with parentId = F and the job's repoId remains, whether or not the
\* diff also adds or modifies files.
C3_DeletedFileLeavesNoVectors ==
    JobCompleted =>
        \A F \in Range(g.changes.deleted) :
            VectorsOf(F, g.job.data.repoId) = {}

\* C4: an attempt that starts while the working clone's HEAD equals the
\* stored lastProcessedCommit writes no blob and upserts no vector.
C4_NoWritesWhenHeadIsLastProcessed ==
    (g.job.id # 0 /\ g.lastAtStart.n > 0 /\ g.headAtStart = g.lastAtStart) =>
        \A i \in DOMAIN g.effects : g.effects[i][1] \notin {"blob", "upsert"}

C4_Witness ==
    /\ JobCompleted
    /\ g.lastAtStart.n > 0
    /\ g.headAtStart = g.lastAtStart
    /\ \E id \in DOMAIN vectors : TRUE

\* C5: when a job failed before the state commit and is run again to
\* completion at the same HEAD, the blob store, the vector store and
\* lastProcessedCommit equal what one uninterrupted run of the job, started
\* from the stores as they were when the job was first picked up, produces.
C5_RerunConvergesToUninterruptedRun ==
    (/\ JobCompleted
     /\ g.job.attemptsMade > 0
     /\ g.first.valid
     /\ g.first.jobId = g.job.id
     /\ g.headAtStart = g.first.head) =>
        LET run == FullRun(g.first.blobs, g.first.vectors, g.first.repoStates,
                           g.first.clones, g.first.ulidClock, g.job.data,
                           g.first.head)
        IN /\ run.ok
           /\ blobs = run.blobs
           /\ vectors = run.vectors
           /\ LastOf(repoStates, g.job.data.repoUrl) =
                  LastOf(run.repoStates, g.job.data.repoUrl)

\* a job that failed after a blob write and a vector upsert has been run
\* again to completion at the same HEAD
C5_Witness ==
    /\ JobCompleted
    /\ g.result = "done"
    /\ g.job.attemptsMade > 0
    /\ g.first.valid
    /\ g.first.jobId = g.job.id
    /\ g.headAtStart = g.first.head
    /\ g.first.vectors # vectors
    /\ g.first.blobs # blobs

\* C6: within one attempt the blob write of a file precedes the vector upsert
\* of that file; lastProcessedCommit is written last, after the blob write
\* and the upsert of every file to process; and an attempt that fails leaves
\* lastProcessedCommit at the value it had when the attempt started.
C6_BlobThenUpsertThenCommit ==
    /\ \A i \in DOMAIN g.effects :
          g.effects[i][1] = "upsert" =>
              \E j \in 1..(i - 1) : g.effects[j] = << "blob", g.effects[i][2] >>
    /\ \A i \in DOMAIN g.effects :
          g.effects[i][1] = "commit" =>
              /\ i = Len(g.effects)
              /\ g.result = "done"
              /\ \A f \in Range(FilesToProcess(g.changes)) :
                    /\ \E j \in 1..(i - 1) : g.effects[j] = << "blob", f >>
                    /\ Len(ChunksAtHead(f)) > 0 =>
                          \E j \in 1..(i - 1) : g.effects[j] = << "upsert", f >>
    /\ (g.job.id # 0 /\ g.result \in {"", "failed"}) =>
          LastOf(repoStates, g.job.data.repoUrl) = g.lastAtStart

\* an attempt has failed after a blob write and a vector upsert
C6_Witness ==
    /\ w.pc = "idle"
    /\ g.result = "failed"
    /\ \E i \in DOMAIN g.effects : g.effects[i][1] = "upsert"

\* C7: when the diff of a completed job holds a rename old -> new, no vector
\* record with parentId = old and the job's repoId remains, and the file at
\* the new path has been ingested as an added file is: its blob written and
\* its chunks upserted.
C7_RenameIsDeletePlusAdd ==
    JobCompleted =>
        \A new \in Range(g.changes.renamed) :
            /\ \A old \in RenamedFrom(g.lastAtStart, g.headAtStart, new) :
                  VectorsOf(old, g.job.data.repoId) = {}
            /\ \E i \in DOMAIN g.effects : g.effects[i] = << "blob", new >>
            /\ \E i \in DOMAIN g.effects : g.effects[i] = << "upsert", new >>

\* C8: after a completed job has ingested a modified file F again, the
\* vector records with parentId = F and the job's repoId are exactly the
\* chunks of the new version of F.
C8_ModifiedFileKeepsOnlyNewChunks ==
    JobCompleted =>
        \A F \in Range(g.changes.modified) :
            VectorsOf(F, g.job.data.repoId) =
                {ChunksAtHead(F)[i].id : i \in DOMAIN ChunksAtHead(F)}

\* the value the worker computes for a reserved metadata key of the record
\* of the i-th chunk of file f, whatever meta the job carries
SystemValue(key, f, i) ==
    LET chunk == ChunksAtHead(f)[i]
        state == CHOOSE r \in RowsByUrl(repoStates, g.job.data.repoUrl) : TRUE
    IN CASE key = "id" -> Str(chunk.id)
         [] key = "category" -> Str("repository")
         [] key = "repositoryId" -> Str(state.id)
         [] key = "repoId" -> Str(g.job.data.repoId)
         [] key = "workspaceId" -> Str("workspace")
         [] key = "userId" -> Str(IF g.job.data.userId # Undefined
                                  THEN g.job.data.userId ELSE "system")
         [] key = "timestamp" -> Str(Now)
         [] key = "filePath" -> Str(f)
         [] key = "fileType" -> Str(extname(f))
         [] key = "chunkIndex" -> Num(i - 1)
         [] key = "chunkType" -> Str(chunk.type)
         [] key = "parentId" -> Str(f)
         [] key = "functionName" -> Str(chunk.id[2])
         [] key = "startLine" -> Num(chunk.startLine)
         [] key = "endLine" -> Num(chunk.endLine)

\* C9: in every vector record an attempt has written, each reserved metadata
\* key holds the value the system computes for it, whatever keys and values
\* the meta of the job contains.
C9_ReservedKeysHoldSystemValues ==
    \A f \in UpsertedFiles :
        \A i \in DOMAIN ChunksAtHead(f) :
            LET id == ChunksAtHead(f)[i].id
            IN /\ id \in DOMAIN vectors
               /\ \A key \in ReservedFields :
                     /\ key \in DOMAIN vectors[id].metadata
                     /\ vectors[id].metadata[key] = SystemValue(key, f, i)

\* an attempt whose meta names reserved keys has upserted the chunks of a
\* file, and the meta's other primitive key is in the record
C9_Witness ==
    /\ g.job.id # 0
    /\ g.job.data.meta.defined
    /\ {"filePath", "repoId", "chunkIndex"} \subseteq
           DOMAIN g.job.data.meta.entries
    /\ UpsertedFiles # {}
    /\ \E id \in DOMAIN vectors :
          /\ "team" \in DOMAIN vectors[id].metadata
          /\ vectors[id].metadata.filePath \in {Str(f) : f \in UpsertedFiles}

\* C10: every key of the meta sent with a request to POST
\* /ingestions/repository that has a primitive value and is not a reserved
\* name is, with the same value, in the metadata of every vector record the
\* job enqueued by that request writes.
C10_RequestMetaReachesEveryRecord ==
    (g.job.id # 0 /\ g.job.origin = "api" /\ g.job.reqMeta.defined) =>
        \A f \in UpsertedFiles :
            \A i \in DOMAIN ChunksAtHead(f) :
                LET id == ChunksAtHead(f)[i].id
                    entries == g.job.reqMeta.entries
                IN \A key \in DOMAIN entries :
                      (/\ key \notin ReservedFields
                       /\ entries[key].type \in {"string", "number", "boolean"})
                      => /\ id \in DOMAIN vectors
                         /\ key \in DOMAIN vectors[id].metadata
                         /\ vectors[id].metadata[key] = entries[key]

\* C11: the records one ingestion of a file has upserted carry the
\* chunkIndex values 0..n-1, each once, n being the number of records
\* upserted for the file after the chunks without text were dropped, and the
\* i-th upserted chunk in chunk order has chunkIndex i-1.
C11_ChunkIndexIsZeroToNMinusOne ==
    \A f \in UpsertedFiles :
        LET chunks == ChunksAtHead(f)
            n == Len(chunks)
            index(i) == vectors[chunks[i].id].metadata.chunkIndex
        IN /\ \A i \in 1..n : chunks[i].id \in DOMAIN vectors
           /\ \A i \in 1..n : index(i) = Num(i - 1)
           /\ {index(i).val : i \in 1..n} = 0..(n - 1)
           /\ \A i, j \in 1..n : index(i) = index(j) => i = j

\* a file one of whose chunks has no text has been upserted
C11_Witness ==
    \E f \in UpsertedFiles :
        /\ Len(ChunksAtHead(f)) >= 2
        /\ Len(ChunksAtHead(f)) < Len(split(f, ReadFile(g.headAtStart, f)))


\* a query that reached the retriever
Retrieved(op) ==
    /\ lastQuery.op = op
    /\ lastQuery.status = 200
    /\ lastQuery.retriever # "none"

\* C12: for every search and searchChunks request the filter handed to the
\* retriever has repoId equal to the repoId path parameter, also when the
\* request's meta holds a key repoId.
C12_FilterRepoIdIsPathParameter ==
    Retrieved("search") \/ Retrieved("searchChunks") =>
        /\ "repoId" \in DOMAIN lastQuery.filter
        /\ lastQuery.filter.repoId = Str(lastQuery.repoId)


\* C13: every result of a parent-mode search for the repoId R of the path was
\* ingested under R: its repoId is R, also when another repoId has ingested
\* the same file path.  (Requests whose meta names a repoId are left out.)
C13_ParentResultsBelongToRepo ==
    (/\ Retrieved("search")
     /\ ~(lastQuery.params.meta.defined
          /\ "repoId" \in DOMAIN lastQuery.params.meta.entries)
     /\ lastQuery.parentIds # << >>)
    => \A i \in DOMAIN lastQuery.results :
           lastQuery.results[i].repoId = lastQuery.repoId


\* C14: a search with result limit k returns at most k results in every
\* case: parent mode at most k entries, parent blobs or orphan chunks, and
\* chunk mode at most k chunks.
C14_AtMostKResults ==
    Retrieved("search") \/ Retrieved("searchChunks") =>
        Len(lastQuery.results) <= lastQuery.k


\* C15: in parent mode the returned parents appear in the order in which
\* their parent ids were first met in the ranked child results, whatever
\* order the blob store returns the blobs in.
C15_ParentsInFirstEncounterOrder ==
    Retrieved("search") /\ lastQuery.parentIds # << >> =>
        LET stored(id) == id \in DOMAIN blobs
        IN [i \in DOMAIN lastQuery.results |-> lastQuery.results[i].id] =
               SelectSeq(lastQuery.parentIds, stored)


\* C16: retrieveChunks(queryVector, k, filter) returns exactly the hits of one
\* similaritySearch(queryVector, k, filter) with the entries of empty content
\* removed, in the order of the hits, and never reads the blob store.
C16_ChunkModeIsOneFilteredSearch ==
    Retrieved("searchChunks") =>
        /\ Len(lastQuery.searches) = 1
        /\ lastQuery.searches[1].topK = lastQuery.k
        /\ lastQuery.searches[1].filter = lastQuery.filter
        /\ lastQuery.reads = << >>
        /\ LET queryVector == embedDocuments(<< lastQuery.params.prompt >>)[1]
               matching == {id \in DOMAIN vectors :
                               Matches(vectors[id], lastQuery.filter)}
           IN \E ranking \in Rankings(vectors, queryVector, matching) :
                  lastQuery.searches[1].hits =
                      similaritySearch(vectors, queryVector, lastQuery.k,
                                       ranking)
        /\ LET hits == lastQuery.searches[1].hits
               hasContent(hit) == hit.content # ""
               kept == SelectSeq(hits, hasContent)
           IN /\ Len(lastQuery.results) = Len(kept)
              /\ \A i \in DOMAIN kept :
                    /\ lastQuery.results[i].id = kept[i].id
                    /\ lastQuery.results[i].content = kept[i].content
                    /\ lastQuery.results[i].metadata = kept[i].metadata

\* a chunk search whose hits held an entry of empty content before an entry
\* that was returned
C16_Witness ==
    /\ Retrieved("searchChunks")
    /\ Len(lastQuery.results) >= 1
    /\ \E i, j \in DOMAIN lastQuery.searches[1].hits :
          /\ i < j
          /\ lastQuery.searches[1].hits[i].content = ""
          /\ lastQuery.searches[1].hits[j].content # ""


\* C17: the limit passed to the retriever is an integer in 1..100: a
\* requested k in 1..100 is passed unchanged, a k above 100 becomes 100, an
\* absent, null, non-integer or below-1 k becomes 5.
C17_LimitIsNormalized ==
    Retrieved("search") \/ Retrieved("searchChunks") =>
        LET k == lastQuery.params.k
            whole == k.kind = "number" /\ k.num % k.den = 0
        IN /\ lastQuery.k \in 1..100
           /\ (whole /\ k.num \div k.den \in 1..100)
                  => lastQuery.k = k.num \div k.den
           /\ (whole /\ k.num \div k.den > 100) => lastQuery.k = 100
           /\ (~whole \/ k.num \div k.den < 1) => lastQuery.k = 5

\* the retriever was called for a request whose k is above 100
C17_Witness ==
    /\ Retrieved("search")
    /\ lastQuery.params.k = KNumber(101, 1)
    /\ lastQuery.searches[1].topK = 300


\* C18: when the embedding client returns an empty list (the prompt is empty
\* after sanitization) search and searchChunks fail with a 400 error and
\* never call the retriever.
C18_NoEmbeddingMeansBadRequest ==
    (/\ lastQuery.op \in {"search", "searchChunks"}
     /\ ProcessText(lastQuery.params.prompt) = "")
    => /\ lastQuery.status = 400
       /\ lastQuery.retriever = "none"
       /\ lastQuery.searches = << >>
       /\ lastQuery.reads = << >>
       /\ lastQuery.results = << >>

\* a request that passed validation was refused for its blank prompt
C18_Witness ==
    /\ lastQuery.op = "searchChunks"
    /\ lastQuery.http
    /\ IsValidQuery(lastQuery.params)
    /\ lastQuery.params.prompt = "  "
    /\ lastQuery.status = 400


\* the ids that occur more than once among the records built for file f of
\* the commit the running attempt works on
RepeatedIds(f) ==
    LET chunks == FilterChunks(split(f, ReadFile(w.currentCommit, f)))
    IN {chunks[i].id : i \in {i \in DOMAIN chunks :
                                 \E j \in DOMAIN chunks :
                                    j # i /\ chunks[j].id = chunks[i].id}}

\* C19: an upsert of a list that holds an id more than once fails with an
\* error that names the repeated ids before any record is written: the step
\* that upserts the chunks of a file with repeated ids (the worker's step from
\* the saved blob, no outside fault) fails the attempt and leaves the
\* collection as it was.
C19_DuplicateIdsFailBeforeAnyWrite ==
    [][(/\ w.pc = "saved"
        /\ RepeatedIds(w.file) # {}
        /\ w' # w
        /\ faults' = faults)
       => /\ vectors' = vectors
          /\ g'.result = "failed"
          /\ Range(g'.error) = RepeatedIds(w.file)
          /\ Len(g'.error) = Cardinality(RepeatedIds(w.file))]_vars

\* an attempt has failed on a file whose chunks share an id
C19_Witness ==
    /\ g.result = "failed"
    /\ g.error = << << "c.ts", "foo", "function_declaration", "L1" >> >>


\* C20: every enqueued job is attempted at most 3 times: a job that waits or
\* runs has failed fewer than 3 attempts, and a job that has failed 3
\* attempts is parked as failed, where it neither waits nor runs again.
C20_AtMostThreeAttempts ==
    /\ \A i \in DOMAIN queue : queue[i].attemptsMade < 3
    /\ w.pc # "idle" => w.job.attemptsMade < 3
    /\ \A i \in DOMAIN failed :
          /\ failed[i].attemptsMade = 3
          /\ \A j \in DOMAIN queue : queue[j].id # failed[i].id
          /\ w.pc # "idle" => w.job.id # failed[i].id
    /\ (g.result = "failed" /\ g.job.attemptsMade >= 3) =>
          \E i \in DOMAIN failed : failed[i].id = g.job.id

\* a job has failed its third attempt and is parked
C20_Witness ==
    /\ Len(failed) > 0
    /\ failed[1].attemptsMade = 3
    /\ g.result = "failed"
    /\ g.job.id = failed[1].id


\* C21: a POST to /jobs/retry/all is handled by the retry-all operation and
\* puts every job that is failed at that moment back into the queue.
C21_RetryAllRequeuesEveryFailedJob ==
    [][(/\ lastQuery' # lastQuery
        /\ lastQuery'.op = "jobs"
        /\ lastQuery'.request = << "retry", "all" >>)
       => /\ lastQuery'.handler = "retryAllRepositoryJobs"
          /\ lastQuery'.status = 200
          /\ failed' = << >>
          /\ \A i \in DOMAIN failed :
                \E j \in DOMAIN queue' : queue'[j].id = failed[i].id]_vars


\* C22: at most one repo state record exists per repository URL at all
\* times, also when two workers process first-time jobs for one URL side by
\* side.
C22_OneStatePerUrl ==
    \A u \in Urls : Cardinality(RowsByUrl(repoStates, u)) <= 1


\* C23: the successive values written to lastProcessedCommit of a repository
\* never move backwards in commit history, for any interleaving of its jobs:
\* no write replaces a stored commit by an older one.
C23_LastProcessedCommitNeverMovesBack ==
    [][\A old \in repoStates : \A new \in repoStates' :
          (new.id = old.id /\ new.repoUrl = old.repoUrl) =>
              new.lastProcessedCommit.n >= old.lastProcessedCommit.n]_vars


\* C30: ingesting a repository under repoId R2 never overwrites, alters or
\* removes a vector record whose metadata.repoId is another repoId R1, also
\* when both repositories hold a block of the same path, name, node type and
\* start line.
C30_IngestionKeepsRecordsOfOtherRepoIds ==
    [][\A id \in DOMAIN vectors :
          (/\ w.pc # "idle"
           /\ vectors[id].metadata.repoId # Str(w.job.data.repoId))
          => /\ id \in DOMAIN vectors'
             /\ vectors'[id] = vectors[id]]_vars


\* C29: across any interleaving of vector-store operations on one adapter
\* instance the collection is created at most once and only when it is
\* absent, and an operation issued after the first successful bootstrap
\* reuses the cached handle without fetching or creating the collection.
C29_CollectionBootstrapIsIdempotent ==
    LET creates == {i \in DOMAIN chroma.calls :
                       chroma.calls[i].call = "createCollection"}
    IN /\ Cardinality(creates) <= 1
       /\ \A i \in creates : ~chroma.calls[i].existed
       /\ \A o \in Operations :
             chroma.cached[o] => chroma.pc[o] \in {"idle", "call", "done"}

\* the hits of the one similarity search of a parent-mode answer
ChildHits == lastQuery.searches[1].hits

\* the hits that carry no parentId and have content
OrphanHits ==
    LET isOrphan(res) == ParentIdOf(res) = "" /\ res.content # ""
    IN SelectSeq(ChildHits, isOrphan)

\* C28: in parent mode the orphan chunks are returned if and only if no
\* parent id was collected; when at least one parent id was collected the
\* blob store is queried once with the distinct parent ids, each parent
\* appears at most once in the result, and no orphan is returned.
C28_ParentModeReturnsParentsOrOrphans ==
    (lastQuery.op = "search" /\ lastQuery.status = 200) =>
        LET collected == {ParentIdOf(ChildHits[i]) : i \in DOMAIN ChildHits}
                            \ {""}
            results == lastQuery.results
        IN /\ Len(lastQuery.searches) = 1
           /\ (collected = {}) =>
                 /\ lastQuery.reads = << >>
                 /\ Len(results) = Len(OrphanHits)
                 /\ \A i \in DOMAIN results :
                       /\ results[i].id = OrphanHits[i].id
                       /\ results[i].content = OrphanHits[i].content
           /\ (collected # {}) =>
                 /\ Len(lastQuery.reads) = 1
                 /\ \A i, j \in DOMAIN lastQuery.reads[1] :
                       lastQuery.reads[1][i] = lastQuery.reads[1][j] => i = j
                 /\ Range(lastQuery.reads[1]) \subseteq collected
                 /\ Range(lastQuery.reads[1]) # {}
                 /\ Len(results) <= Len(lastQuery.reads[1])
                 /\ \A i, j \in DOMAIN results :
                       results[i].id = results[j].id => i = j
                 /\ \A i \in DOMAIN results :
                       /\ results[i].id \in Range(lastQuery.reads[1])
                       /\ results[i] = [id |-> blobs[results[i].id].id,
                                        content |-> blobs[results[i].id].content,
                                        repoId |-> blobs[results[i].id].repoId,
                                        metadata |-> blobs[results[i].id].metadata]

\* a parent-mode answer whose search hit orphans and children of two files:
\* it holds the two parents and no orphan
C28_Witness ==
    /\ lastQuery.op = "search"
    /\ lastQuery.status = 200
    /\ Len(OrphanHits) > 0
    /\ Len(lastQuery.parentIds) >= 2
    /\ Len(lastQuery.results) >= 2
    /\ Len(ChildHits) > Len(lastQuery.parentIds) + Len(OrphanHits)

\* the paths whose extension, in lower case, is in the binary-extension list
BinaryPaths == {p \in Paths : toLowerCase(extname(p)) \in BinaryExtensions}

\* C27: a file whose extension is in the binary-extension list is skipped
\* by the job: no blob is written for it, no vector record is upserted for
\* it, and the worker never reaches the split, embedding and upsert stretch
\* with it.
C27_BinaryFilesAreSkipped ==
    \A p \in BinaryPaths :
        /\ p \notin DOMAIN blobs
        /\ \A id \in DOMAIN vectors : id[1] # p
        /\ ~(w.pc = "saved" /\ w.file = p)
        /\ \A i \in DOMAIN g.effects :
              g.effects[i] \notin {<< "blob", p >>, << "upsert", p >>}

\* a job that found the image among its added files has completed and has
\* written the blobs of other files
C27_Witness ==
    /\ g.result = "done"
    /\ \E p \in BinaryPaths : p \in Range(FilesToProcess(g.changes))
    /\ DOMAIN blobs # {}
    /\ DOMAIN vectors # {}

\* a file of commit c that the loop reads, splits into at least one chunk
\* and upserts
Ingestible(c, f) ==
    /\ toLowerCase(extname(f)) \notin BinaryExtensions
    /\ c.tree[f] # Unreadable
    /\ Len(FilterChunks(split(f, ReadFile(c, f)))) > 0

\* C24: a per-file error (the file cannot be read, or it yields no chunks)
\* does not stop the job: no step of the file loop ends the job other than
\* by completing it unless a call throws, and a completed job has saved and
\* upserted every file of its change list that can be ingested and has
\* committed the state with the commit it read; a job that failed on an
\* error of git, the embedding client, the vector store or the blob store
\* has not committed the state.
C24_FileErrorsSkipPhaseErrorsAbort ==
    /\ [](g.result = "done" =>
            /\ \A f \in Range(FilesToProcess(g.changes)) :
                  Ingestible(g.headAtStart, f) =>
                      /\ << "blob", f >> \in Range(g.effects)
                      /\ << "upsert", f >> \in Range(g.effects)
            /\ g.effects[Len(g.effects)] = << "commit" >>
            /\ LastOf(repoStates, g.job.data.repoUrl) = g.headAtStart)
    /\ [](g.result = "failed" =>
            /\ << "commit" >> \notin Range(g.effects)
            /\ LastOf(repoStates, g.job.data.repoUrl) = g.lastAtStart)
    /\ [][(w.pc \in {"files", "saved"} /\ faults' = faults /\ w' # w)
             => (w'.pc # "idle" \/ g'.result = "done")]_vars

\* the first attempt of a job was aborted by a thrown error with nothing
\* committed; its retry met a file that cannot be read and a file without
\* chunks, went on to ingest the file after them and committed the state
C24_Witness ==
    /\ g.result = "done"
    /\ g.job.attemptsMade >= 1
    /\ g.lastAtStart = NoCommit
    /\ g.headAtStart.tree["a.ts"] = Unreadable
    /\ g.headAtStart.tree["b.ts"] = "n1"
    /\ << "upsert", "c.ts" >> \in Range(g.effects)
    /\ LastOf(repoStates, g.job.data.repoUrl) = g.headAtStart

\* C25: when a repo state record exists for a URL and its clone directory
\* is missing, the next job for that URL has the repository cloned into the
\* recorded localPath once the state is resolved, and then goes on with the
\* ingestion instead of failing on the missing directory.
C25_MissingCloneIsRecloned ==
    [][/\ (/\ w.pc = "idle"
           /\ w'.pc = "resolved"
           /\ RowsByUrl(repoStates, w'.job.data.repoUrl) # {})
          => w'.state.localPath \in clones'
       /\ (/\ w.pc = "resolved"
           /\ w' # w
           /\ faults' = faults
           /\ \/ w.state.lastProcessedCommit.n = 0
              \/ validateCommit(w.state.repoUrl, w.state.lastProcessedCommit))
          => g'.result # "failed"]_vars

\* C26: when the stored lastProcessedCommit does not resolve in the working
\* clone, the worker goes on as in a bootstrap: the files to process are
\* all tracked files of HEAD, none is deleted, and the commit to store is
\* HEAD.
C26_InvalidStoredCommitIsBootstrap ==
    [][(/\ w.pc = "resolved"
        /\ w' # w
        /\ faults' = faults
        /\ w.state.localPath \in clones
        /\ w.state.lastProcessedCommit.n # 0
        /\ ~validateCommit(w.state.repoUrl, w.state.lastProcessedCommit))
       => /\ w'.pc = "files"
          /\ w'.files = TrackedFiles(head[w.state.repoUrl])
          /\ w'.currentCommit = head[w.state.repoUrl]
          /\ g'.result # "failed"
          /\ vectors' = vectors]_vars

\* C31: for a URL that has a repo state record, a job issues no clone,
\* fetch, pull or checkout: no step of the worker moves HEAD of a clone or
\* adds a clone for a URL that has a record, so a job that finds the stored
\* commit equal to HEAD (no outside change since the last successful job)
\* returns "No changes detected".
C31_JobsLeaveTheCloneAlone ==
    [][/\ (w' # w \/ g' # g) => head' = head
       /\ (w.pc = "idle" /\ g' # g /\ Len(queue) > 0
              /\ RowsByUrl(repoStates, Head(queue).data.repoUrl) # {})
          => clones' = clones
       /\ (w.pc # "idle" /\ w' # w) => clones' = clones
       /\ (/\ w.pc = "resolved"
           /\ w' # w
           /\ faults' = faults
           /\ w.state.lastProcessedCommit.n # 0
           /\ w.state.lastProcessedCommit = head[w.state.repoUrl])
          => /\ w'.pc = "idle"
             /\ g'.result = "No changes detected"]_vars

\* the job after a successful one for the same URL was taken with the clone
\* as that job left it and has returned without changes
C31_Witness ==
    /\ g.result = "No changes detected"
    /\ g.job.id > 1
    /\ g.lastAtStart.n # 0
    /\ g.lastAtStart = g.headAtStart
    /\ g.effects = << >>

\* C32: every vector record the worker upserts carries a defined embedding
\* and it is the embedding of that record's own chunk content: for the
\* chunk list of the file in work, after the whitespace filter, the
\* embedding client returns one vector per chunk, the i-th of the i-th
\* chunk.
C32_EmbeddingIsOfOwnContent ==
    /\ \A id \in DOMAIN vectors :
          /\ vectors[id].embedding # NoVector
          /\ vectors[id].embedding = Embed(ProcessText(vectors[id].document))
    /\ w.pc = "saved" =>
          LET allChunks == split(w.file, ReadFile(w.currentCommit, w.file))
              texts == [i \in DOMAIN allChunks |-> allChunks[i].content]
              kept(text) == NonBlank(text)
              batchTexts == SelectSeq(texts, kept)
              embedded == embedDocuments(batchTexts)
          IN /\ Len(embedded) = Len(batchTexts)
             /\ \A i \in DOMAIN batchTexts :
                   embedded[i] = Embed(ProcessText(batchTexts[i]))

\* the chunks of a file that holds a zero-width block between two
\* functions were filtered, embedded and upserted: both functions are in
\* the collection
C32_Witness ==
    /\ \E u \in Urls : head[u].tree["c.ts"] = "s1"
    /\ Cardinality({id \in DOMAIN vectors : id[1] = "c.ts"}) >= 2
    /\ g.result = "done"

\* the ids of the jobs parked as failed
FailedIds == {failed[i].id : i \in DOMAIN failed}

\* C33: retryFailedJob(jobId) re-enqueues the job only if it exists and is
\* in the failed state: it then leaves the failed set for the end of the
\* queue and the other jobs stay; for an unknown id or a job in another
\* state the answer is a bad request and neither the queue, the failed set
\* nor the running job changes.
C33_RetryOnlyFailedJobs ==
    [][(/\ lastQuery' # lastQuery
        /\ lastQuery'.op = "jobs"
        /\ lastQuery'.handler = "retryRepositoryJob")
       => LET id == JobIdOf(lastQuery'.request[2])
          IN IF id \in FailedIds
             THEN /\ lastQuery'.status = 200
                  /\ Len(queue') = Len(queue) + 1
                  /\ queue'[Len(queue')].id = id
                  /\ SubSeq(queue', 1, Len(queue)) = queue
                  /\ {failed'[i].id : i \in DOMAIN failed'} = FailedIds \ {id}
                  /\ w' = w
             ELSE /\ lastQuery'.status = 400
                  /\ queue' = queue
                  /\ failed' = failed
                  /\ w' = w]_vars

\* a retry was asked for a job that exists and is not failed (it waits in
\* the queue or is being processed) while another job is failed: the answer
\* is a bad request and the failed job is still failed
C33_Witness ==
    /\ lastQuery.op = "jobs"
    /\ lastQuery.handler = "retryRepositoryJob"
    /\ lastQuery.status = 400
    /\ LET id == JobIdOf(lastQuery.request[2])
       IN /\ id # 0
          /\ \/ w.job.id = id
             \/ \E i \in DOMAIN queue : queue[i].id = id
    /\ Len(failed) > 0

\* C35: while the breaker is Open and the wait time since it opened has not
\* elapsed, exec does not invoke the handler and returns the fallback; the
\* first exec after the wait time has elapsed moves the breaker to HalfOpen
\* and invokes the handler.
C35_OpenBreakerWaitsThenProbes ==
    [][(breaker'.requests = breaker.requests + 1 /\ breaker.state = "Open")
       => IF breaker.now - breaker.openedAt < openToHalfOpenWaitTime
          THEN /\ breaker'.event = "fallback"
               /\ breaker'.inFlight = breaker.inFlight
               /\ breaker'.state = "Open"
          ELSE /\ breaker'.event = "invoke"
               /\ breaker'.inFlight = breaker.inFlight + 1
               /\ breaker'.state = "HalfOpen"]_vars

\* C36: the breaker leaves Closed for Open only on a failure that is the
\* failureThreshold-th in a row with no success in between, and leaves
\* HalfOpen for Open on any single failure; no other event opens it.
C36_OpensOnConsecutiveFailures ==
    [][/\ (breaker.state # "Open" /\ breaker'.state = "Open")
          => /\ breaker'.event = "failure"
             /\ breaker.state = "Closed"
                   => breaker'.closedFailures >= failureThreshold
       /\ (breaker.state = "HalfOpen" /\ breaker'.event = "failure"
              /\ breaker' # breaker)
          => breaker'.state = "Open"]_vars

\* after the wait time had passed on the clock, failures interleaved with a
\* success left three failures in a row: the third of these opened the
\* closed breaker
C36_Witness ==
    /\ breaker.state = "Open"
    /\ breaker.event = "failure"
    /\ breaker.closedFailures = failureThreshold
    /\ breaker.openedAt = breaker.now
    /\ breaker.now >= openToHalfOpenWaitTime
    /\ breaker.requests > failureThreshold

\* C37: the breaker moves from HalfOpen to Closed only on a success that is
\* the successThreshold-th since it last entered HalfOpen; successes of an
\* earlier HalfOpen period that ended in a failure do not count.
C37_ClosesOnSuccessesOfThisPeriod ==
    [][(breaker.state = "HalfOpen" /\ breaker'.state = "Closed")
       => /\ breaker'.event = "success"
          /\ breaker'.halfOpenSuccesses >= successThreshold]_vars

\* C38: a request the interceptor rejects because the circuit is open is
\* answered with the fallback error, HTTP 503 'Service unavailable. Please
\* try again later.'
C38_RejectedRequestGets503 ==
    breaker.event = "fallback" => breaker.answer = Fallback

\* C34: getJobStatus reports the job's current progress as a number in
\* 0..100: the progress recorded on the job while it is active (for example
\* 45), and 100 once the job has completed.
C34_StatusReportsRecordedProgress ==
    [][(lastQuery' # lastQuery /\ lastQuery'.op = "status"
           /\ lastQuery'.status = 200)
       => /\ lastQuery'.progress \in 0..100
          /\ lastQuery'.state = "active"
                => lastQuery'.progress = progress[lastQuery'.id]
          /\ lastQuery'.state = "completed"
                => lastQuery'.progress = 100]_vars

====
